---- MODULE Spec2Model ----
(***************************************************************************)
(* A model of the chatlog evidence-retrieval engine of gregorwang/agent:   *)
(*   - the per-session tool budget           (src/chatlog/budget_manager.py)*)
(*   - the in-memory evidence store          (src/chatlog/mcp_server.py)    *)
(*   - the JSONL message loader              (src/chatlog/loader.py)        *)
(*   - the per-dimension evidence retrieval  (src/chatlog/mcp_server.py)    *)
(* Each subsystem has its own specification over the shared variables; the *)
(* variables of the other subsystems stay at their initial values.         *)
(***************************************************************************)
EXTENDS Integers, Sequences, FiniteSets, TLC

VARIABLES
    \* ---- budget_manager.py ----
    mgr,            \* BudgetManager._default_max_* (read from the environment)
    budgets,        \* BudgetManager._budgets: session id -> ToolBudget
    taskPc,         \* position of each concurrent task: "idle" | "acting"
    lastCheck,      \* return value of the latest check_budget: "none"|"allowed"|"denied"
    \* ---- mcp_server.py: evidence store ----
    EVIDENCE_STORE,        \* _EVIDENCE_STORE: handle -> payload
    EVIDENCE_STORE_ORDER,  \* _EVIDENCE_STORE_ORDER: handles, oldest first
    issued,                \* history: every (handle, payload) _store_evidence was given
    pending,               \* per retrieve call in flight: the payload it is about to store
    getArg,                \* argument of the latest _get_evidence
    getResult,             \* its return value
    \* ---- loader.py ----
    file,           \* the log file: a sequence of line kinds, or NoFile
    messages,       \* ChatlogLoader._messages
    loaded,         \* ChatlogLoader._loaded
    loadPc,         \* "start" | "reading" | "returned"
    loadLine,       \* index of the next line enumerate() yields
    loadResult,     \* return value of load(): "none" | "True" | "False"
    \* ---- metadata_indexer.py, metadata_index_loader.py ----
    chatlog,        \* the log file the indexer and the index loader read
    indexer,        \* MetadataIndexer: topic_index, available_topics, line_count
    index_file,     \* the saved index file: whether it exists, and its JSON text
    index_loader,   \* MetadataIndexLoader: _topic_index, _available_topics, _loaded
    indexPc,        \* "start" | "built" | "build_failed" | "saved" | "returned"
    linesArg,       \* arguments of the latest get_messages_by_lines
    linesResult,    \* its return value
    \* ---- mcp_server.py: the fusion score under configured weights ----
    fusion,         \* the weights, one line's signals, and its two scores
    \* ---- mcp_server.py: _analyze_evidence_impl ----
    analysis,       \* the latest analyze_evidence: the handle passed, the result
    matrixCase,     \* one dimension of an analysis: its counts, the service's answer, its entry
    cancel_signal,  \* the session has been told to cancel (nothing in the code reads it)
    capCase,        \* one composed query: the limit, the lengths, the path, the returned length
    expandCase,     \* one rule-based query expansion: its inputs and the topics returned
    embed,          \* one embedding request / index build: attempts, outcomes, the arrays
    \* ---- mcp_server.py: _retrieve_evidence_impl ----
    req,                \* args of the call
    env,                \* which artifacts and services are there during the call
    rpc,                \* "idle" | "loop" | "finish" | "done" | "raised"
    callCount,          \* retrieve calls made in this session
    dims,               \* local: dimensions (given, or planned)
    dimIdx,             \* local: position of the for loop over dimensions
    remaining_budget,   \* local
    dimension_outputs,  \* local
    evidence_store,     \* local: the messages to store under the handle
    brokeAt,            \* history: the loop position at which "break" ran, or 0
    result              \* the tool response returned by the call

budgetVars == <<mgr, budgets, taskPc, lastCheck>>
storeVars  == <<EVIDENCE_STORE, EVIDENCE_STORE_ORDER, issued, pending, getArg, getResult>>
loaderVars == <<file, messages, loaded, loadPc, loadLine, loadResult>>
retrieveVars == <<req, env, rpc, callCount, dims, dimIdx, remaining_budget,
                  dimension_outputs, evidence_store, brokeAt, result>>
indexVars  == <<chatlog, indexer, index_file, index_loader, indexPc, linesArg, linesResult>>
fusionVars == <<fusion>>
analyzeVars == <<analysis>>
caseVars   == <<matrixCase, cancel_signal, capCase, expandCase, embed>>

(***************************************************************************)
(* Python helpers                                                          *)
(***************************************************************************)
Min(a, b) == IF a <= b THEN a ELSE b
Max(a, b) == IF a >= b THEN a ELSE b

\* Python's None
None == "None"

(***************************************************************************)
(* budget_manager.py                                                       *)
(***************************************************************************)
\* Bounds of the budget model.  The three ceilings are read from the
\* environment by BudgetManager.__init__; the model draws them from 1..Cfg*.
CfgMaxToolCalls == 2
CfgMaxMessages  == 2
CfgMaxChars     == 3
\* Largest result_chars / messages_loaded one tool call reports.
MaxCallChars    == 2
MaxCallMessages == 2
NTasks          == 2

Sessions == {"s1"}
Tasks    == 1..NTasks
ToolName == "retrieve_evidence"

\* ToolBudget(max_tool_calls=..., max_loaded_messages=..., max_tool_result_chars=...)
ToolBudget(maxCalls, maxMessages, maxChars) ==
    [max_tool_calls        |-> maxCalls,
     max_loaded_messages   |-> maxMessages,
     max_tool_result_chars |-> maxChars,
     tool_calls            |-> 0,
     loaded_messages       |-> 0,
     total_result_chars    |-> 0,
     tool_history          |-> <<>>]

\* ToolBudget.can_call_tool
can_call_tool(b) == b.tool_calls < b.max_tool_calls

\* ToolBudget.can_load_messages
can_load_messages(b, count) == b.loaded_messages + count <= b.max_loaded_messages

\* A slip of record_tool_call: the result size is assigned, not accumulated.
record_tool_call_Assign(b, tool_name, result_chars) ==
    [b EXCEPT !.tool_calls = @ + 1,
              !.total_result_chars = result_chars,
              !.tool_history = Append(@, tool_name)]

\* ToolBudget.record_tool_call
record_tool_call(b, tool_name, result_chars) ==
    [b EXCEPT !.tool_calls = @ + 1,
              !.total_result_chars = @ + result_chars,
              !.tool_history = Append(@, tool_name)]

\* ToolBudget.record_messages
record_messages(b, count) == [b EXCEPT !.loaded_messages = @ + count]

\* ToolBudget.is_over_budget
is_over_budget(b) ==
    \/ b.tool_calls >= b.max_tool_calls
    \/ b.loaded_messages >= b.max_loaded_messages
    \/ b.total_result_chars >= b.max_tool_result_chars

\* ToolBudget.get_remaining
get_remaining(b) ==
    [tool_calls |-> Max(0, b.max_tool_calls - b.tool_calls),
     messages   |-> Max(0, b.max_loaded_messages - b.loaded_messages),
     chars      |-> Max(0, b.max_tool_result_chars - b.total_result_chars)]

\* ToolBudget.get_gap_annotation: the annotation string is modelled by the
\* list of ceilings it names; the empty list is the empty string.
get_gap_annotation(b) ==
    LET remaining == get_remaining(b)
    IN  (IF remaining.tool_calls = 0 THEN <<"tool_calls">> ELSE <<>>)
        \o (IF remaining.messages = 0 THEN <<"messages">> ELSE <<>>)
        \o (IF remaining.chars = 0 THEN <<"chars">> ELSE <<>>)

\* BudgetManager.get_budget: the dictionary after the lookup (the entry is
\* created on first use).
get_budget(bs, m, session_id) ==
    IF session_id \in DOMAIN bs
    THEN bs
    ELSE [s \in DOMAIN bs \cup {session_id} |->
            IF s = session_id
            THEN ToolBudget(m.max_calls, m.max_messages, m.max_chars)
            ELSE bs[s]]

\* BudgetManager.clear_budget: _budgets.pop(session_id, None)
clear_budget(bs, session_id) ==
    [s \in DOMAIN bs \ {session_id} |-> bs[s]]

\* BudgetManager.clear_all
clear_all(bs) == [s \in {} |-> bs[s]]

\* record_tool_usage (module function): the dictionary after the call.
record_tool_usage(bs, m, session_id, tool_name, result_chars, messages_loaded) ==
    LET bs1 == get_budget(bs, m, session_id)
        b1  == record_tool_call(bs1[session_id], tool_name, result_chars)
        b2  == IF messages_loaded > 0 THEN record_messages(b1, messages_loaded) ELSE b1
    IN  [bs1 EXCEPT ![session_id] = b2]

BudgetInit ==
    /\ mgr \in [max_calls    : 1..CfgMaxToolCalls,
                max_messages : {CfgMaxMessages},
                max_chars    : {CfgMaxChars}]
    /\ budgets = [s \in {} |-> None]
    /\ taskPc = [t \in Tasks |-> "idle"]
    /\ lastCheck = "none"

\* A task calls check_budget(session_id, tool_name) before acting.
CheckBudget(t, s) ==
    /\ taskPc[t] = "idle"
    /\ LET bs1     == get_budget(budgets, mgr, s)
           allowed == can_call_tool(bs1[s])
       IN  /\ budgets' = bs1
           /\ lastCheck' = IF allowed THEN "allowed" ELSE "denied"
           /\ taskPc' = [taskPc EXCEPT ![t] = IF allowed THEN "acting" ELSE "idle"]
    /\ UNCHANGED mgr

\* The task finished its tool and calls record_tool_usage.
RecordToolUsage(t, s, chars, msgs) ==
    /\ taskPc[t] = "acting"
    /\ budgets' = record_tool_usage(budgets, mgr, s, ToolName, chars, msgs)
    /\ taskPc' = [taskPc EXCEPT ![t] = "idle"]
    /\ UNCHANGED <<mgr, lastCheck>>

\* get_budget_manager().clear_budget(session_id), "call after query completes".
ClearBudget(s) ==
    /\ budgets' = clear_budget(budgets, s)
    /\ UNCHANGED <<mgr, taskPc, lastCheck>>

\* get_budget_manager().clear_all()
ClearAll ==
    /\ budgets' = clear_all(budgets)
    /\ UNCHANGED <<mgr, taskPc, lastCheck>>

\* The budget manager runs alone: the store and the loader are not touched.
BudgetFrame == UNCHANGED <<storeVars, loaderVars, retrieveVars, indexVars, fusionVars, analyzeVars, caseVars>>

BudgetNext ==
    \/ \E t \in Tasks, s \in Sessions : CheckBudget(t, s) /\ BudgetFrame
    \/ \E t \in Tasks, s \in Sessions, chars \in 0..MaxCallChars, msgs \in 0..MaxCallMessages :
          RecordToolUsage(t, s, chars, msgs) /\ BudgetFrame
    \/ \E s \in Sessions : ClearBudget(s) /\ BudgetFrame
    \/ ClearAll /\ BudgetFrame

(***************************************************************************)
(* mcp_server.py: the evidence store                                       *)
(***************************************************************************)
\* _CHATLOG_EVIDENCE_CACHE_SIZE (environment CHATLOG_EVIDENCE_CACHE_SIZE):
\* the model uses a small capacity so that eviction happens.
CHATLOG_EVIDENCE_CACHE_SIZE == 2
\* Number of _store_evidence calls explored.
MaxStores == 5
\* Number of retrieve calls that may be in flight at once.
NCallers == 2
Callers == 1..NCallers

Payloads == {"pA", "pB"}
\* Handles: uuid4().hex[:12] is modelled as a value that never repeats; the
\* k-th handle issued is k.  0 models the empty / None handle.
Handles == 0..(MaxStores + 1)

\* uuid.uuid4(): a handle not issued before.
uuid4(hist) == Len(hist) + 1

\* An access-ordered (LRU) lookup: the handle read is moved to the newest end.
get_evidence_order_LRU(order, evidence_id) ==
    IF evidence_id \in {order[i] : i \in 1..Len(order)}
    THEN SelectSeq(order, LAMBDA h : h # evidence_id) \o <<evidence_id>>
    ELSE order

\* _get_evidence leaves _EVIDENCE_STORE_ORDER as it is.
get_evidence_order(order, evidence_id) == order

\* A lookup by subscript: raises KeyError for a missing handle.
get_evidence_Subscript(store, evidence_id) ==
    IF evidence_id = 0 THEN None
    ELSE IF evidence_id \in DOMAIN store THEN store[evidence_id] ELSE "KeyError"

\* _get_evidence: its return value.
get_evidence(store, evidence_id) ==
    IF evidence_id = 0 THEN None
    ELSE IF evidence_id \in DOMAIN store THEN store[evidence_id] ELSE None

\* An eviction that forgets to drop the payload of the expired handle.
store_evidence_KeepExpired(store, order, evidence_id, payload) ==
    LET store1 == [h \in DOMAIN store \cup {evidence_id} |->
                      IF h = evidence_id THEN payload ELSE store[h]]
        order1 == Append(order, evidence_id)
    IN  IF Len(order1) > CHATLOG_EVIDENCE_CACHE_SIZE
        THEN [store |-> store1, order |-> Tail(order1)]
        ELSE [store |-> store1, order |-> order1]

\* _store_evidence: the store and the order list after the call.
store_evidence(store, order, evidence_id, payload) ==
    LET store1 == [h \in DOMAIN store \cup {evidence_id} |->
                      IF h = evidence_id THEN payload ELSE store[h]]
        order1 == Append(order, evidence_id)
    IN  IF Len(order1) > CHATLOG_EVIDENCE_CACHE_SIZE
        THEN LET expired == Head(order1)
             IN  [store |-> [h \in DOMAIN store1 \ {expired} |-> store1[h]],
                  order |-> Tail(order1)]
        ELSE [store |-> store1, order |-> order1]

StoreInit ==
    /\ EVIDENCE_STORE = [h \in {} |-> None]
    /\ EVIDENCE_STORE_ORDER = <<>>
    /\ issued = <<>>
    /\ pending = [c \in Callers |-> None]
    /\ getArg = 0
    /\ getResult = None

\* A retrieve call has collected its evidence and is suspended at
\* "await cleaner.compress_messages(...)"; other calls run meanwhile.
AwaitCompression(c, payload) ==
    /\ pending[c] = None
    /\ Len(issued) + Cardinality({d \in Callers : pending[d] # None}) < MaxStores
    /\ pending' = [pending EXCEPT ![c] = payload]
    /\ UNCHANGED <<EVIDENCE_STORE, EVIDENCE_STORE_ORDER, issued, getArg, getResult>>

\* The call resumes and runs _store_evidence(payload).  The function has no
\* await in it, so under the asyncio event loop it runs as one step.
StoreEvidence(c) ==
    /\ pending[c] # None
    /\ LET evidence_id == uuid4(issued)
           r == store_evidence(EVIDENCE_STORE, EVIDENCE_STORE_ORDER, evidence_id, pending[c])
       IN  /\ EVIDENCE_STORE' = r.store
           /\ EVIDENCE_STORE_ORDER' = r.order
           /\ issued' = Append(issued, [handle |-> evidence_id, payload |-> pending[c]])
    /\ pending' = [pending EXCEPT ![c] = None]
    /\ UNCHANGED <<getArg, getResult>>

\* _get_evidence(evidence_id)
GetEvidence(evidence_id) ==
    /\ getArg' = evidence_id
    /\ getResult' = get_evidence(EVIDENCE_STORE, evidence_id)
    /\ EVIDENCE_STORE_ORDER' = get_evidence_order(EVIDENCE_STORE_ORDER, evidence_id)
    /\ UNCHANGED <<EVIDENCE_STORE, issued, pending>>

StoreFrame == UNCHANGED <<budgetVars, loaderVars, retrieveVars, indexVars, fusionVars, analyzeVars, caseVars>>

StoreNext ==
    \/ \E c \in Callers, p \in Payloads : AwaitCompression(c, p) /\ StoreFrame
    \/ \E c \in Callers : StoreEvidence(c) /\ StoreFrame
    \/ \E h \in Handles : GetEvidence(h) /\ StoreFrame

(***************************************************************************)
(* loader.py: ChatlogLoader.load                                           *)
(***************************************************************************)
\* Longest log file explored.
MaxFileLen == 3

\* os.path.exists(self.file_path) is false
NoFile == <<"NoFile">>

\* What one line of the file is, by what load() does with it:
\*   "record"    a JSON object of the log format: json.loads and the field
\*               extraction succeed
\*   "blank"     empty after strip()
\*   "bad_json"  json.loads raises JSONDecodeError
\*   "bad_shape" json.loads succeeds but the value is no record of the log
\*               format (42, [], {"metadata": null}, {"content": 7}):
\*               data.get / metadata.get / the topics loop / __post_init__
\*               raise AttributeError or TypeError
LineKinds == {"record", "blank", "bad_json", "bad_shape"}
Malformed == {"bad_json", "bad_shape"}

RECURSIVE SeqsUpTo(_, _)
\* All sequences over S of length at most n.
SeqsUpTo(S, n) ==
    IF n = 0 THEN {<<>>}
    ELSE LET shorter == SeqsUpTo(S, n - 1)
         IN  shorter \cup {Append(q, x) : q \in {r \in shorter : Len(r) = n - 1}, x \in S}

LogFiles == SeqsUpTo(LineKinds, MaxFileLen)

\* ChatMessage(line_number=line_num, ...)
ChatMessage(line_num) == [line_number |-> line_num]

\* ChatlogLoader.message_count once load() has been called:
\* len(self._messages) if self._messages else 0
message_count == IF messages = None THEN 0 ELSE Len(messages)

\* Number of lines of kind k in f.
CountKind(f, K) == Cardinality({i \in 1..Len(f) : f[i] \in K})

LoaderInit ==
    /\ file \in LogFiles \cup {NoFile}
    /\ messages = None
    /\ loaded = FALSE
    /\ loadPc = "start"
    /\ loadLine = 0
    /\ loadResult = "none"

\* if not os.path.exists(self.file_path): return False
LoadNotFound ==
    /\ loadPc = "start"
    /\ file = NoFile
    /\ loadPc' = "returned"
    /\ loadResult' = "False"
    /\ UNCHANGED <<file, messages, loaded, loadLine>>

\* self._messages = []; self._sender_index = {}; open(...)
LoadOpen ==
    /\ loadPc = "start"
    /\ file # NoFile
    /\ messages' = <<>>
    /\ loadLine' = 1
    /\ loadPc' = "reading"
    /\ UNCHANGED <<file, loaded, loadResult>>

Reading == loadPc = "reading" /\ loadLine <= Len(file)

\* if not line: continue
LoadBlankLine ==
    /\ Reading
    /\ file[loadLine] = "blank"
    /\ loadLine' = loadLine + 1
    /\ UNCHANGED <<file, messages, loaded, loadPc, loadResult>>

\* A variant that takes the message's line number from the list position.
LoadedMessage_ByPosition(line_num, msgs) == ChatMessage(Len(msgs) + 1)

\* msg = ChatMessage(line_number=line_num, ...)
LoadedMessage(line_num, msgs) == ChatMessage(line_num)

\* A variant of the except clause that keeps a placeholder for the bad line.
AfterJsonDecodeError_Keep(msgs, line_num) == Append(msgs, ChatMessage(line_num))

\* except json.JSONDecodeError: continue
AfterJsonDecodeError(msgs, line_num) == msgs

\* data = json.loads(line); ...; self._messages.append(msg)
LoadRecordLine ==
    /\ Reading
    /\ file[loadLine] = "record"
    /\ messages' = Append(messages, LoadedMessage(loadLine, messages))
    /\ loadLine' = loadLine + 1
    /\ UNCHANGED <<file, loaded, loadPc, loadResult>>

\* json.loads raises JSONDecodeError: the inner handler skips the line.
LoadBadJsonLine ==
    /\ Reading
    /\ file[loadLine] = "bad_json"
    /\ messages' = AfterJsonDecodeError(messages, loadLine)
    /\ loadLine' = loadLine + 1
    /\ UNCHANGED <<file, loaded, loadPc, loadResult>>

\* The line parses as JSON but the field extraction raises AttributeError or
\* TypeError: the inner handler does not catch it, the outer
\* "except Exception" returns False.  _loaded stays False and _messages keeps
\* what was read so far.
LoadBadShapeLine ==
    /\ Reading
    /\ file[loadLine] = "bad_shape"
    /\ loadPc' = "returned"
    /\ loadResult' = "False"
    /\ UNCHANGED <<file, messages, loaded, loadLine>>

\* End of file: self._loaded = True; return True
LoadFinish ==
    /\ loadPc = "reading"
    /\ loadLine > Len(file)
    /\ loaded' = TRUE
    /\ loadPc' = "returned"
    /\ loadResult' = "True"
    /\ UNCHANGED <<file, messages, loadLine>>

\* The None that get_message returns in place of a message (line numbers
\* start at 1).
NoMessage == ChatMessage(0)

\* ChatlogLoader.get_message(line_number) once the log is loaded:
\* idx = line_number - 1 into _messages.
get_message(msgs, line_number) ==
    IF msgs = None \/ msgs = <<>> THEN NoMessage
    ELSE IF 0 <= line_number - 1 /\ line_number - 1 < Len(msgs)
         THEN msgs[line_number - 1 + 1]
         ELSE NoMessage

LoaderFrame == UNCHANGED <<budgetVars, storeVars, retrieveVars, indexVars, fusionVars, analyzeVars, caseVars>>

LoaderNext ==
    \/ LoadNotFound /\ LoaderFrame
    \/ LoadOpen /\ LoaderFrame
    \/ LoadBlankLine /\ LoaderFrame
    \/ LoadRecordLine /\ LoaderFrame
    \/ LoadBadJsonLine /\ LoaderFrame
    \/ LoadBadShapeLine /\ LoaderFrame
    \/ LoadFinish /\ LoaderFrame

(***************************************************************************)
(* mcp_server.py: _retrieve_evidence_impl -- the log snapshot it reads      *)
(***************************************************************************)
\* Number of lines of the log snapshot (all of them well-formed records).
NLines == 4
Lines  == 1..NLines

\* Program constants of mcp_server.py (defaults of the environment lookups).
CHATLOG_MAX_LIST_ITEMS        == 80
CHATLOG_MAX_EVIDENCE_MESSAGES == 80
CHATLOG_MAX_EVIDENCE_PER_DIM  == 25
CHATLOG_LOAD_CONTEXT_BEFORE   == 2
CHATLOG_LOAD_CONTEXT_AFTER    == 2
\* retrieve clamps context_before / context_after to 3.
RETRIEVE_MAX_CONTEXT          == 3
\* CHATLOG_SEM_WEIGHT = 0.6, CHATLOG_KW_WEIGHT = 0.4, in tenths.
SEM_WEIGHT_TENTHS == 6
KW_WEIGHT_TENTHS  == 4
\* The density bonus 0.15, in units of 1/2000.
HIGH_INFO_BONUS == 300

\* The snapshot: sender, topics, density and body of each line.
LineSender(ln) == IF ln % 2 = 1 THEN "Bob" ELSE "Ann"
LineTopics(ln) ==
    {"chat"} \cup (IF ln % 2 = 0 THEN {"loan"} ELSE {}) \cup (IF ln = 3 THEN {"job"} ELSE {})
LineDensity(ln) == IF ln = 2 THEN "high" ELSE IF ln = 3 THEN "medium" ELSE "low"
\* The keywords the body of a line contains (after lower()).
LineKeywords(ln) == IF ln <= 2 THEN {"money"} ELSE {}
\* The persons the body of a line mentions.
LineMentions(ln) == IF ln = 2 THEN {"Bob"} ELSE {}

\* Raw cosine similarity of a query and a line, in hundredths (-100..100).
Cosine(query, ln) ==
    CASE query = "q_repay" -> 100 - 30 * ln
      [] query = "q_late"  -> 30 * ln - 50
      [] query = "c_never" -> 20 * ln - 30
      [] OTHER             -> 10 - ln

\* MetadataIndexLoader._topic_index / available_topics, as metadata_indexer
\* builds them from the snapshot.
available_topics == UNION {LineTopics(ln) : ln \in Lines}
search_by_topic_exact(topic) == {ln \in Lines : topic \in LineTopics(ln)}

\* MetadataIndexLoader.get_high_value_messages
get_high_value_messages == {ln \in Lines : LineDensity(ln) \in {"high", "medium"}}

(***************************************************************************)
(* Python list helpers                                                     *)
(***************************************************************************)
\* seq[:k] with Python's meaning of a negative k.
PySliceTo(seq, k) ==
    LET n    == Len(seq)
        stop == IF k >= 0 THEN Min(k, n) ELSE Max(0, n + k)
    IN  SubSeq(seq, 1, stop)

\* int(a / b) for b > 0: truncation toward zero.
PyIntDiv(a, b) == IF a >= 0 THEN a \div b ELSE 0 - ((0 - a) \div b)

\* A Python list or dict built by a comprehension: the same sequence or
\* function, with every element computed when the list is built.
List(f) == f \o <<>>
Dict(f) == f @@ <<>>

\* Python's order of two keys, each a pair of integers (a one-part key has
\* 0 as its second part; False, True are 0, 1).
KeyGt(x, y) == x[1] > y[1] \/ (x[1] = y[1] /\ x[2] > y[2])

\* sorted(seq, key=..., reverse=True), keys[i] being the key of seq[i]:
\* elements with equal keys keep their order (the sort is stable).
SortedReverse(seq, keys) ==
    LET n == Len(seq)
        rank(i) == Cardinality({j \in 1..n :
                       \/ KeyGt(keys[j], keys[i])
                       \/ (keys[j] = keys[i] /\ j < i)}) + 1
    IN  List([p \in 1..n |-> seq[CHOOSE i \in 1..n : rank(i) = p]])

\* The elements of a set of integers in ascending order.
Ascending(S) ==
    LET n == Cardinality(S)
    IN  List([p \in 1..n |-> CHOOSE x \in S : Cardinality({y \in S : y < x}) = p - 1])

SeqRange(seq) == {seq[i] : i \in 1..Len(seq)}

\* The list without repeats, first occurrences kept (dict key order).
FirstOccurrences(seq) ==
    LET keep == {i \in 1..Len(seq) : \A j \in 1..(i - 1) : seq[j] # seq[i]}
        idx  == Ascending(keep)
    IN  List([p \in 1..Len(idx) |-> seq[idx[p]]])

RECURSIVE Flatten(_)
\* The concatenation of a list of lists.
Flatten(seqs) == IF seqs = <<>> THEN <<>> ELSE Head(seqs) \o Flatten(Tail(seqs))

(***************************************************************************)
(* mcp_server.py: _retrieve_evidence_impl -- recall, ranking, formatting    *)
(***************************************************************************)
\* SemanticIndex.search(query, top_k) on an index holding one row per line.
\* With the artifacts missing load() is false and the result is [].
\* raised: _embed_texts raised RuntimeError (the query could not be
\* embedded), or np.argpartition raised ValueError (kth = top_k - 1 is below
\* -size).  hits: (line, raw cosine) pairs, best first.
SemanticSearch(sem_state, query, top_k) ==
    LET size   == NLines
        k1     == Min(top_k, size)
        byLine == List([i \in 1..size |-> [line |-> i, score |-> Cosine(query, i)]])
        ranked == SortedReverse(byLine, List([i \in 1..size |-> <<Cosine(query, i), 0>>]))
    IN  IF sem_state = "missing"
        THEN [raised |-> FALSE, hits |-> <<>>]
        ELSE IF sem_state = "embed_fails" \/ k1 - 1 < 0 - size
        THEN [raised |-> TRUE, hits |-> <<>>]
        ELSE [raised |-> FALSE, hits |-> PySliceTo(ranked, k1)]

\* max(0.0, min(1.0, (score + 1.0) / 2.0)), in units of 1/200.
NormalizedCosine(score) == Max(0, Min(200, score + 100))

\* The loop "for query in queries: for line_num, score in search(...)":
\* order is the key order of the dict it fills, norm its values.
SemanticRecall(sem_state, queries, top_k) ==
    LET found == List([i \in 1..Len(queries) |->
                          SemanticSearch(sem_state, queries[i], top_k)])
        hits  == Flatten(List([i \in 1..Len(queries) |-> found[i].hits]))
        order == FirstOccurrences(List([i \in 1..Len(hits) |-> hits[i].line]))
        best(ln) == LET v == {NormalizedCosine(hits[i].score) :
                                  i \in {j \in 1..Len(hits) : hits[j].line = ln}}
                    IN  CHOOSE x \in v : \A y \in v : y <= x
    IN  [raised |-> \E i \in 1..Len(queries) : found[i].raised,
         order  |-> order,
         norm   |-> Dict([ln \in SeqRange(order) |-> best(ln)])]

\* _search_by_keywords_impl with match_all=False, as retrieve reads its
\* "line_numbers": the lines whose content has one of the keywords, of the
\* target sender only when a target person is given.
search_by_keywords(keywords, target_person) ==
    LET matched == {ln \in Lines :
                       /\ (target_person # None => LineSender(ln) = target_person)
                       /\ SeqRange(keywords) \cap LineKeywords(ln) # {}}
    IN  PySliceTo(Ascending(matched), CHATLOG_MAX_LIST_ITEMS)

\* sem_weight + kw_weight if that is positive, else 1.0 (in tenths).
WeightSum ==
    IF SEM_WEIGHT_TENTHS + KW_WEIGHT_TENTHS > 0
    THEN SEM_WEIGHT_TENTHS + KW_WEIGHT_TENTHS ELSE 10

\* _score(line_num), in units of 1/2000.
Score(ln, kwLines, semNorm) ==
    (IF ln \in kwLines THEN (2000 * KW_WEIGHT_TENTHS) \div WeightSum ELSE 0)
    + (IF ln \in DOMAIN semNorm
       THEN (10 * SEM_WEIGHT_TENTHS * semNorm[ln]) \div WeightSum ELSE 0)
    + (IF ln \in get_high_value_messages THEN HIGH_INFO_BONUS ELSE 0)

\* sorted(combined_lines, key=lambda ln: (_score(ln), -ln), reverse=True)
RankLines(combined, kwLines, semNorm) ==
    SortedReverse(Ascending(combined),
        List([i \in 1..Cardinality(combined) |->
                 <<Score(Ascending(combined)[i], kwLines, semNorm),
                   0 - Ascending(combined)[i]>>]))

\* MetadataIndexLoader.get_messages_by_lines: the records of the requested
\* lines and of their context windows, in file order, each flagged is_match.
get_messages_by_lines(line_numbers, context_before, context_after) ==
    IF line_numbers = <<>> THEN <<>>
    ELSE LET expanded == {Max(1, ln + off) :
                             ln \in SeqRange(line_numbers),
                             off \in (0 - context_before)..context_after}
             present  == Ascending(expanded \cap Lines)
         IN  List([i \in 1..Len(present) |->
                      [line_number |-> present[i],
                       is_match    |-> present[i] \in SeqRange(line_numbers)]])

\* mentions_target of one message.
MentionsTarget(ln, target_person) ==
    /\ target_person # None
    /\ (LineSender(ln) = target_person \/ target_person \in LineMentions(ln))

\* formatted_messages.sort(key=lambda m: (m["mentions_target"], m["score"]),
\*                         reverse=True)
SortFormatted(msgs) ==
    SortedReverse(msgs,
        List([i \in 1..Len(msgs) |->
                 <<IF msgs[i].mentions_target THEN 1 ELSE 0, msgs[i].score>>]))

\* The truncation of the emitted list without the second cut to "desired".
TruncateFormatted_NoCut(msgs, desired) == msgs

\* formatted_messages = formatted_messages[:desired]
TruncateFormatted(msgs, desired) == PySliceTo(msgs, desired)

\* "coverage" of a dimension's output.
Coverage(topic_seeds, dim) ==
    [topic_seeds      |-> topic_seeds,
     keyword_seeds    |-> dim.keyword_seeds,
     semantic_queries |-> dim.semantic_queries,
     counter_queries  |-> dim.counter_queries]

\* A recall that found nothing (and a search that did not run).
NoRecall == [raised |-> FALSE, order |-> <<>>, norm |-> <<>>]

\* semantic_index is not None (use_semantic and is_available()).
SemanticOn(r, e) == r.use_semantic /\ e.sem # "missing"

\* A variant that looks at the topic recall only.
KeywordFallback_TopicOnly(keyword_seeds, topic_lines, semantic_lines) ==
    keyword_seeds # <<>> /\ topic_lines = {}

\* if keyword_seeds and not topic_lines and not semantic_lines
KeywordFallback(keyword_seeds, topic_lines, semantic_lines) ==
    keyword_seeds # <<>> /\ topic_lines = {} /\ DOMAIN semantic_lines = {}

\* The recall of one dimension: topic seeds the index has, their lines, the
\* semantic hits, and the keyword fallback when both of those are empty
\* (keyword_scan: _search_by_keywords_impl was called).
RecallLines(dim, r, e) ==
    LET topic_seeds == SelectSeq(dim.topic_seeds, LAMBDA t : t \in available_topics)
        topic_lines == UNION {search_by_topic_exact(t) : t \in SeqRange(topic_seeds)}
        sem_top_k   == Min(CHATLOG_MAX_LIST_ITEMS,
                           Min(r.max_per_dimension, CHATLOG_MAX_EVIDENCE_PER_DIM) * 4)
        sem         == IF SemanticOn(r, e) /\ dim.semantic_queries # <<>>
                       THEN SemanticRecall(e.sem, dim.semantic_queries, sem_top_k)
                       ELSE NoRecall
    IN  [raised         |-> sem.raised,
         topic_seeds    |-> topic_seeds,
         topic_lines    |-> topic_lines,
         semantic_lines |-> sem.norm,
         keyword_scan   |-> KeywordFallback(dim.keyword_seeds, topic_lines, sem.norm),
         keyword_lines  |->
             IF KeywordFallback(dim.keyword_seeds, topic_lines, sem.norm)
             THEN SeqRange(search_by_keywords(dim.keyword_seeds, r.target_person))
             ELSE {}]

\* combined_lines of a recall, and the lines that score as keyword hits.
CombinedLines(rec) == rec.topic_lines \cup rec.keyword_lines \cup DOMAIN rec.semantic_lines
KeywordHits(rec) == rec.topic_lines \cup rec.keyword_lines

\* desired = min(max_per_dimension, remaining_budget)
Desired(r, budget) == Min(Min(r.max_per_dimension, CHATLOG_MAX_EVIDENCE_PER_DIM), budget)

\* selected_lines = ranked_lines[:desired]
SelectedLines(rec, desired) ==
    PySliceTo(RankLines(CombinedLines(rec), KeywordHits(rec), rec.semantic_lines), desired)

\* The matches among the loaded messages, formatted and scored.
FormatMatches(dim, r, rec, loadedMsgs, counter) ==
    LET matches == SelectSeq(loadedMsgs, LAMBDA m : m.is_match)
    IN  List([i \in 1..Len(matches) |->
                 [line            |-> matches[i].line_number,
                  score           |-> IF counter
                                      THEN rec.semantic_lines[matches[i].line_number]
                                      ELSE Score(matches[i].line_number, KeywordHits(rec),
                                                 rec.semantic_lines),
                  dimension       |-> dim.name,
                  mentions_target |-> MentionsTarget(matches[i].line_number,
                                                     r.target_person),
                  is_counter      |-> counter]])

\* formatted_messages of a dimension after the sort and the cut.
EmittedMessages(dim, r, rec, selected_lines, desired) ==
    TruncateFormatted(
        SortFormatted(
            FormatMatches(dim, r, rec,
                get_messages_by_lines(selected_lines,
                                      Min(r.context_before, RETRIEVE_MAX_CONTEXT),
                                      Min(r.context_after, RETRIEVE_MAX_CONTEXT)),
                FALSE)),
        desired)

\* max(5, max_per_dimension // 2), capped
CounterTopK(r) ==
    Min(CHATLOG_MAX_LIST_ITEMS,
        Max(5, PyIntDiv(Min(r.max_per_dimension, CHATLOG_MAX_EVIDENCE_PER_DIM), 2)))

\* The counter-evidence recall of a dimension.
CounterRecall(dim, r, e) ==
    IF SemanticOn(r, e) /\ dim.counter_queries # <<>>
    THEN SemanticRecall(e.sem, dim.counter_queries, CounterTopK(r))
    ELSE NoRecall

\* counter_formatted: the counter hits outside selected_lines, loaded without
\* context and formatted with their counter scores.
CounterMessages(dim, r, counter, selected_lines) ==
    FormatMatches(dim, r, [semantic_lines |-> counter.norm],
        get_messages_by_lines(
            PySliceTo(SelectSeq(counter.order,
                                LAMBDA ln : ln \notin SeqRange(selected_lines)),
                      CounterTopK(r)),
            0, 0),
        TRUE)

\* The (line, score) view of formatted messages in a dimension's output.
OutputView(msgs) ==
    List([i \in 1..Len(msgs) |-> [line |-> msgs[i].line, score |-> msgs[i].score]])

\* The entry of one dimension in dimension_outputs.
DimensionOutput(dim, r, rec, selected_lines, emitted, counter_store) ==
    LET empty == CombinedLines(rec) = {}
    IN  [name             |-> dim.name,
         evidence         |-> IF empty THEN <<>> ELSE OutputView(emitted),
         counter_evidence |->
             IF empty THEN <<>>
             ELSE PySliceTo(OutputView(counter_store),
                      Max(1, PyIntDiv(Min(r.max_per_dimension,
                                          CHATLOG_MAX_EVIDENCE_PER_DIM), 3))),
         coverage         |-> Coverage(rec.topic_seeds, dim),
         omitted_count    |-> IF empty THEN 0
                              ELSE Max(0, Cardinality(CombinedLines(rec))
                                          - Len(selected_lines)),
         min_evidence     |-> dim.min_evidence]

\* What one dimension with candidates adds: emitted (formatted_messages
\* after the cut), counter_store (the counter-evidence kept for the handle)
\* and output (the entry appended to dimension_outputs).
RankedDimension(dim, r, rec, counter, selected_lines, desired) ==
    [raised  |-> counter.raised,
     empty   |-> FALSE,
     emitted |-> EmittedMessages(dim, r, rec, selected_lines, desired),
     counter_store |-> CounterMessages(dim, r, counter, selected_lines),
     output  |-> DimensionOutput(dim, r, rec, selected_lines,
                     EmittedMessages(dim, r, rec, selected_lines, desired),
                     CounterMessages(dim, r, counter, selected_lines))]

\* What a recall adds: raised (an exception left the function), empty (the
\* "if not combined_lines" branch ran), or the ranked dimension.
RecalledDimension(dim, r, e, budget, rec) ==
    IF rec.raised \/ CombinedLines(rec) = {}
    THEN [raised  |-> rec.raised,
          empty   |-> CombinedLines(rec) = {},
          emitted |-> <<>>,
          counter_store |-> <<>>,
          output  |-> DimensionOutput(dim, r, rec, <<>>, <<>>, <<>>)]
    ELSE RankedDimension(dim, r, rec, CounterRecall(dim, r, e),
                         SelectedLines(rec, Desired(r, budget)), Desired(r, budget))

\* The body of "for dim in dimensions" for one dimension with
\* remaining_budget > 0.
ProcessDimension(dim, r, e, budget) ==
    RecalledDimension(dim, r, e, budget, RecallLines(dim, r, e))

(***************************************************************************)
(* mcp_server.py: _retrieve_evidence_impl -- the call                       *)
(***************************************************************************)
\* Longest list of dimensions in a request.
MaxDims == 2
\* Retrieve calls made in one session.
MaxCalls == 2

Dimension(name, topics, keywords, queries, counters, minEvidence) ==
    [name |-> name, topic_seeds |-> topics, keyword_seeds |-> keywords,
     semantic_queries |-> queries, counter_queries |-> counters,
     min_evidence |-> minEvidence]

\* The dimensions a request is built from: topic recall only; topic,
\* semantic and counter recall; keyword fallback behind a topic the index
\* does not have; no seeds at all.
DimCatalog ==
    {Dimension("talk",   <<"chat">>,  <<>>,        <<>>,                   <<>>,          1),
     Dimension("credit", <<"loan">>,  <<"money">>, <<"q_repay", "q_late">>, <<"c_never">>, 2),
     Dimension("cash",   <<"ghost">>, <<"money">>, <<>>,                   <<>>,          1),
     Dimension("repay",  <<>>,        <<"money">>, <<"q_repay">>,          <<>>,          1),
     Dimension("blank",  <<>>,        <<>>,        <<>>,                   <<>>,          3)}

\* Values a caller passes as max_per_dimension / max_total_messages (an
\* absent argument is the default, 25 / 80; 100 is above both caps).
MaxPerDimensionArgs == {-1, 0, 1, 2, 100}
MaxTotalMessagesArgs == {-1, 0, 1, 2, 100}

\* use_semantic and the state of the semantic artifacts and embedding
\* service: "missing" (is_available() is false), "ok", "embed_fails".
SemanticSettings ==
    {<<TRUE, "missing">>, <<TRUE, "ok">>, <<TRUE, "embed_fails">>, <<FALSE, "ok">>}

\* The lists of dimensions a request may carry.
DimLists == SeqsUpTo(DimCatalog, MaxDims)

\* What the dimension planner (LLM-backed or rule-based) may answer when the
\* request carries no dimensions.
PlanOutcomes == {<<>>} \cup {<<d>> : d \in DimCatalog}

NoResult == [kind |-> "none"]

RetrieveInit ==
    /\ \E tp \in {None, "Bob"}, ds \in DimLists,
          mpd \in MaxPerDimensionArgs, mtm \in MaxTotalMessagesArgs,
          sem \in SemanticSettings, idx \in BOOLEAN, q \in {"", "q"} :
          \* the index file is missing, or the question is empty, only in
          \* one representative request
          /\ (~idx \/ q = "") =>
                /\ mpd = 1 /\ mtm = 1 /\ tp = None /\ sem = <<TRUE, "ok">>
                /\ Len(ds) <= 1
          /\ req = [question |-> q, target_person |-> tp, dimensions |-> ds,
                    max_per_dimension |-> mpd, max_total_messages |-> mtm,
                    use_semantic |-> sem[1],
                    context_before |-> CHATLOG_LOAD_CONTEXT_BEFORE,
                    context_after |-> CHATLOG_LOAD_CONTEXT_AFTER]
          /\ env = [index_ok |-> idx, sem |-> sem[2]]
    /\ rpc = "idle"
    /\ callCount = 0
    /\ dims = <<>>
    /\ dimIdx = 0
    /\ remaining_budget = 0
    /\ dimension_outputs = <<>>
    /\ evidence_store = <<>>
    /\ brokeAt = 0
    /\ result = NoResult

\* min(int(args.get("max_total_messages", ...)), _CHATLOG_MAX_EVIDENCE_MESSAGES)
max_total_messages == Min(req.max_total_messages, CHATLOG_MAX_EVIDENCE_MESSAGES)
\* min(int(args.get("max_per_dimension", ...)), _CHATLOG_MAX_EVIDENCE_PER_DIM)
max_per_dimension == Min(req.max_per_dimension, CHATLOG_MAX_EVIDENCE_PER_DIM)

\* The caller passed ceilings of at least one.
PositiveCeilings == max_per_dimension >= 1 /\ max_total_messages >= 1

ErrorResult(message) == [kind |-> "error", is_error |-> TRUE, error |-> message]
SuccessResult(evidence_id, outputs) ==
    [kind |-> "success", is_error |-> FALSE, evidence_id |-> evidence_id,
     dimensions |-> outputs]

ResetLocals ==
    /\ dims' = <<>>
    /\ dimIdx' = 0
    /\ remaining_budget' = 0
    /\ dimension_outputs' = <<>>
    /\ evidence_store' = <<>>
    /\ brokeAt' = 0

\* The call returns _error(...): no question and no dimensions, or the
\* metadata index cannot be loaded.
RetrieveError ==
    /\ rpc = "idle"
    /\ callCount < MaxCalls
    /\ \/ (req.question = "" /\ req.dimensions = <<>>)
       \/ ~env.index_ok
    /\ result' = IF req.question = "" /\ req.dimensions = <<>>
                 THEN ErrorResult("no question or dimensions")
                 ELSE ErrorResult("cannot load index")
    /\ rpc' = "done"
    /\ callCount' = callCount + 1
    /\ ResetLocals
    /\ UNCHANGED <<req, env, storeVars>>

\* No dimensions were given and the planner returned none: the early
\* _success with evidence_id None.
RetrieveNoDimensions ==
    /\ rpc = "idle"
    /\ callCount < MaxCalls
    /\ req.question # ""
    /\ env.index_ok
    /\ req.dimensions = <<>>
    /\ <<>> \in PlanOutcomes
    /\ result' = SuccessResult(0, <<>>)
    /\ rpc' = "done"
    /\ callCount' = callCount + 1
    /\ ResetLocals
    /\ UNCHANGED <<req, env, storeVars>>

\* The call reaches the loop over its dimensions (given, or planned).
RetrieveStart ==
    /\ rpc = "idle"
    /\ callCount < MaxCalls
    /\ env.index_ok
    /\ \/ /\ req.dimensions # <<>>
          /\ dims' = req.dimensions
       \/ /\ req.dimensions = <<>>
          /\ req.question # ""
          /\ \E plan \in PlanOutcomes \ {<<>>} : dims' = plan
    /\ dimIdx' = 1
    /\ remaining_budget' = max_total_messages
    /\ dimension_outputs' = <<>>
    /\ evidence_store' = <<>>
    /\ brokeAt' = 0
    /\ result' = NoResult
    /\ rpc' = "loop"
    /\ callCount' = callCount + 1
    /\ UNCHANGED <<req, env, storeVars>>

InLoop == rpc = "loop" /\ dimIdx <= Len(dims)

\* if remaining_budget <= 0: break
LoopBreak ==
    /\ InLoop
    /\ remaining_budget <= 0
    /\ brokeAt' = dimIdx
    /\ rpc' = "finish"
    /\ UNCHANGED <<req, env, callCount, dims, dimIdx, remaining_budget,
                   dimension_outputs, evidence_store, result, storeVars>>

\* The loop ran out of dimensions.
LoopEnd ==
    /\ rpc = "loop"
    /\ dimIdx > Len(dims)
    /\ rpc' = "finish"
    /\ UNCHANGED <<req, env, callCount, dims, dimIdx, remaining_budget,
                   dimension_outputs, evidence_store, brokeAt, result, storeVars>>

Processed == ProcessDimension(dims[dimIdx], req, env, remaining_budget)

\* A semantic or counter-evidence search raises: nothing in the loop catches
\* it, the exception leaves _retrieve_evidence_impl.
DimensionRaises ==
    /\ InLoop
    /\ remaining_budget > 0
    /\ Processed.raised
    /\ rpc' = "raised"
    /\ result' = [kind |-> "exception"]
    /\ UNCHANGED <<req, env, callCount, dims, dimIdx, remaining_budget,
                   dimension_outputs, evidence_store, brokeAt, storeVars>>

\* if not combined_lines: append the empty output; continue
DimensionEmpty ==
    /\ InLoop
    /\ remaining_budget > 0
    /\ ~Processed.raised
    /\ Processed.empty
    /\ dimension_outputs' = Append(dimension_outputs, Processed.output)
    /\ dimIdx' = dimIdx + 1
    /\ UNCHANGED <<req, env, rpc, callCount, dims, remaining_budget,
                   evidence_store, brokeAt, result, storeVars>>

\* The dimension has candidates: rank, select, load, format, cut, deduct the
\* budget, collect counter-evidence, append the output.
DimensionEvidence ==
    /\ InLoop
    /\ remaining_budget > 0
    /\ ~Processed.raised
    /\ ~Processed.empty
    /\ remaining_budget' = remaining_budget - Len(Processed.emitted)
    /\ evidence_store' = evidence_store \o Processed.emitted \o Processed.counter_store
    /\ dimension_outputs' = Append(dimension_outputs, Processed.output)
    /\ dimIdx' = dimIdx + 1
    /\ UNCHANGED <<req, env, rpc, callCount, dims, brokeAt, result, storeVars>>

\* cleaner.compress_messages with a configured client whose answer rates
\* message number hi (if any) 10 and leaves the others at the default 5:
\* sort by relevance, keep the first max_output_messages, sort back by time
\* (the log is chronological: by line).
compress_messages(msgs, hi, max_output_messages) ==
    LET scored   == List([i \in 1..Len(msgs) |->
                        [msg |-> msgs[i], relevance |-> IF i = hi THEN 10 ELSE 5]])
        byRel    == SortedReverse(scored,
                        List([i \in 1..Len(scored) |-> <<scored[i].relevance, 0>>]))
        selected == PySliceTo(byRel, max_output_messages)
        byTime   == SortedReverse(selected,
                        List([i \in 1..Len(selected) |-> <<0 - selected[i].msg.line, 0>>]))
    IN  List([i \in 1..Len(byTime) |-> byTime[i].msg])

\* The end of the call: optional compression, _store_evidence, _success.
Finish ==
    /\ rpc = "finish"
    /\ \E compressed \in
            {evidence_store} \cup
            {compress_messages(evidence_store, hi, max_total_messages) :
                hi \in 0..Len(evidence_store)} :
          \* compression runs only when there is evidence (and use_compression
          \* is set, the client is configured and the call does not raise)
          /\ (evidence_store = <<>> => compressed = evidence_store)
          /\ LET evidence_id == uuid4(issued)
                 payload == [question |-> req.question,
                             target_person |-> req.target_person,
                             dimensions |-> dims,
                             messages |-> compressed]
                 r == store_evidence(EVIDENCE_STORE, EVIDENCE_STORE_ORDER,
                                     evidence_id, payload)
             IN  /\ EVIDENCE_STORE' = r.store
                 /\ EVIDENCE_STORE_ORDER' = r.order
                 /\ issued' = Append(issued, [handle |-> evidence_id, payload |-> payload])
                 /\ result' = SuccessResult(evidence_id, dimension_outputs)
          /\ evidence_store' = compressed
    /\ rpc' = "done"
    /\ UNCHANGED <<req, env, callCount, dims, dimIdx, remaining_budget,
                   dimension_outputs, brokeAt, pending, getArg, getResult>>

\* The session issues the same request again.
RetrieveAgain ==
    /\ rpc \in {"done", "raised"}
    /\ callCount < MaxCalls
    /\ rpc' = "idle"
    /\ UNCHANGED <<req, env, callCount, dims, dimIdx, remaining_budget,
                   dimension_outputs, evidence_store, brokeAt, result, storeVars>>

\* _analyze_evidence_impl called with an evidence_id only: the messages it
\* works on are those stored under the handle ("stored.get("messages", [])
\* or []"), none when the handle is unknown.
AnalyzedMessages(store, evidence_id) ==
    IF evidence_id = 0 \/ evidence_id \notin DOMAIN store THEN <<>>
    ELSE store[evidence_id].messages

AnalysisResult(evidence_id, kind, is_error) ==
    [evidence_id |-> evidence_id, kind |-> kind, is_error |-> is_error]

\* _analyze_evidence_impl: "if not messages: return _error(...)", else the
\* analysis.
analyze_evidence(store, evidence_id) ==
    IF AnalyzedMessages(store, evidence_id) = <<>>
    THEN AnalysisResult(evidence_id, "error", TRUE)
    ELSE AnalysisResult(evidence_id, "success", FALSE)

NoAnalysis == AnalysisResult(0, "none", FALSE)

\* The session passes the handle of the retrieve that just returned to
\* analyze_evidence.
AnalyzeEvidence ==
    /\ rpc = "done"
    /\ result.kind = "success"
    /\ result.evidence_id # 0
    /\ analysis' = analyze_evidence(EVIDENCE_STORE, result.evidence_id)
    /\ UNCHANGED <<retrieveVars, storeVars>>

AnalyzeIdle == analysis = NoAnalysis

RetrieveFrame == UNCHANGED <<budgetVars, loaderVars, indexVars, fusionVars, analyzeVars, caseVars>>

RetrieveNext ==
    \/ RetrieveError /\ RetrieveFrame
    \/ RetrieveNoDimensions /\ RetrieveFrame
    \/ RetrieveStart /\ RetrieveFrame
    \/ LoopBreak /\ RetrieveFrame
    \/ LoopEnd /\ RetrieveFrame
    \/ DimensionRaises /\ RetrieveFrame
    \/ DimensionEmpty /\ RetrieveFrame
    \/ DimensionEvidence /\ RetrieveFrame
    \/ Finish /\ RetrieveFrame
    \/ RetrieveAgain /\ RetrieveFrame
    \/ AnalyzeEvidence /\ UNCHANGED <<budgetVars, loaderVars, indexVars, fusionVars, caseVars>>

\* No retrieve call is running.
RetrieveIdle ==
    /\ req = [question |-> "", target_person |-> None, dimensions |-> <<>>,
              max_per_dimension |-> CHATLOG_MAX_EVIDENCE_PER_DIM,
              max_total_messages |-> CHATLOG_MAX_EVIDENCE_MESSAGES,
              use_semantic |-> TRUE,
              context_before |-> CHATLOG_LOAD_CONTEXT_BEFORE,
              context_after |-> CHATLOG_LOAD_CONTEXT_AFTER]
    /\ env = [index_ok |-> TRUE, sem |-> "ok"]
    /\ rpc = "idle"
    /\ callCount = 0
    /\ dims = <<>>
    /\ dimIdx = 0
    /\ remaining_budget = 0
    /\ dimension_outputs = <<>>
    /\ evidence_store = <<>>
    /\ brokeAt = 0
    /\ result = NoResult

(***************************************************************************)
(* mcp_server.py: _retrieve_evidence_impl under a cancellation signal      *)
(***************************************************************************)
\* The session is told to cancel while the loop over the dimensions runs.
\* The loop tests remaining_budget only; no statement of
\* _retrieve_evidence_impl or of the budget manager reads a signal.
CancelArrives ==
    /\ InLoop
    /\ ~cancel_signal
    /\ cancel_signal' = TRUE
    /\ UNCHANGED <<budgetVars, storeVars, loaderVars, retrieveVars, indexVars,
                   fusionVars, analyzeVars, matrixCase, capCase, expandCase, embed>>

CancelIdle == cancel_signal = FALSE

\* One retrieve call with positive ceilings and a working semantic index,
\* during which the signal may arrive.
CancelInit ==
    /\ RetrieveInit
    /\ PositiveCeilings
    /\ env.index_ok
    /\ env.sem # "embed_fails"
    /\ req.question # ""

CancelNext ==
    \/ RetrieveStart /\ RetrieveFrame
    \/ LoopBreak /\ RetrieveFrame
    \/ LoopEnd /\ RetrieveFrame
    \/ DimensionEmpty /\ RetrieveFrame
    \/ DimensionEvidence /\ RetrieveFrame
    \/ Finish /\ RetrieveFrame
    \/ CancelArrives

(***************************************************************************)
(* metadata_indexer.py and metadata_index_loader.py: the topic index       *)
(***************************************************************************)
\* Longest log the indexer reads.
MaxIndexLog == 3

\* The "topics" lists of the records: a topic once, the same topic twice,
\* a topic with surrounding blanks next to its plain form, two topics, a
\* string of blanks, an entry that is not a string ("#5"), none.
TopicLists ==
    {<<>>, <<"loan">>, <<"loan", "loan">>, <<" loan", "loan">>,
     <<"job", "loan">>, <<"  ">>, <<"#5", "job">>}

\* isinstance(topic, str)
IsStr(topic) == topic # "#5"

\* str.strip()
Strip(topic) ==
    IF topic = " loan" THEN "loan" ELSE IF topic = "  " THEN "" ELSE topic

\* The order of Python's sorted() on the stripped topics.
TopicOrder == <<"", "job", "loan">>

LogLine(kind, topics) == [kind |-> kind, topics |-> topics]

\* The lines a log is made of: blank, not JSON, JSON that is not a record,
\* and records with their metadata topics.
IndexLogLines ==
    {LogLine("blank", <<>>), LogLine("bad_json", <<>>), LogLine("bad_shape", <<>>)}
    \cup {LogLine("record", ts) : ts \in TopicLists}

IndexFrame == UNCHANGED <<budgetVars, storeVars, loaderVars, retrieveVars, fusionVars, analyzeVars, caseVars>>

\* A Python dict: its items in insertion order.
DictHas(d, k) == \E i \in 1..Len(d) : d[i].key = k
DictGet(d, k, default) ==
    IF DictHas(d, k) THEN d[CHOOSE i \in 1..Len(d) : d[i].key = k].value ELSE default

\* self.topic_index[topic].append(line_num) on a defaultdict(list)
AppendToKey(d, k, x) ==
    IF DictHas(d, k)
    THEN List([i \in 1..Len(d) |->
                  IF d[i].key = k THEN [key |-> k, value |-> Append(d[i].value, x)]
                  ELSE d[i]])
    ELSE Append(d, [key |-> k, value |-> <<x>>])

\* topic = topic.strip(); self.topic_index[topic].append(line_num);
\* self.available_topics.add(topic)
IndexTopic(ix, topic, line_num) ==
    [ix EXCEPT !.topic_index = AppendToKey(@, Strip(topic), line_num),
               !.available_topics = @ \cup {Strip(topic)}]

RECURSIVE IndexTopics(_, _, _)
\* for topic in topics: if topic and isinstance(topic, str): ...
IndexTopics(ix, topics, line_num) ==
    IF topics = <<>> THEN ix
    ELSE IndexTopics(IF Head(topics) # "" /\ IsStr(Head(topics))
                     THEN IndexTopic(ix, Head(topics), line_num)
                     ELSE ix,
                     Tail(topics), line_num)

RECURSIVE BuildFrom(_, _, _)
\* The loop of build_index from line line_num on: ok is its return value.
BuildFrom(ix, log, line_num) ==
    IF line_num > Len(log) THEN [ok |-> TRUE, ix |-> ix]
    ELSE IF log[line_num].kind \in {"blank", "bad_json"}
         THEN BuildFrom(ix, log, line_num + 1)
    ELSE IF log[line_num].kind = "bad_shape"
         THEN [ok |-> FALSE, ix |-> ix]
    ELSE BuildFrom([IndexTopics(ix, log[line_num].topics, line_num)
                        EXCEPT !.line_count = line_num],
                   log, line_num + 1)

\* MetadataIndexer.__init__
NewIndexer == [topic_index |-> <<>>, available_topics |-> {}, line_count |-> 0]

\* MetadataIndexer.build_index
build_index(log) == BuildFrom(NewIndexer, log, 1)

\* json.dump of a dict of lists: the text, as its tokens.
JsonKey(k) == [tok |-> "key", key |-> k, num |-> 0]
JsonNum(n) == [tok |-> "num", key |-> "", num |-> n]
json_dump(d) ==
    Flatten(List([i \in 1..Len(d) |->
        <<JsonKey(d[i].key)>>
        \o List([j \in 1..Len(d[i].value) |-> JsonNum(d[i].value[j])])]))

\* A variant of the parser that reads each list as a set of numbers.
JsonAddNumber_Set(d, n) ==
    IF n \in SeqRange(d[Len(d)].value) THEN d
    ELSE [d EXCEPT ![Len(d)].value = Append(@, n)]

\* The parser appends a number to the list of the member it is reading.
JsonAddNumber(d, n) == [d EXCEPT ![Len(d)].value = Append(@, n)]

RECURSIVE JsonLoadFrom(_, _, _)
\* json.load of that text: a member with a key read before replaces it.
JsonLoadFrom(d, text, pos) ==
    IF pos > Len(text) THEN d
    ELSE IF text[pos].tok = "key"
         THEN JsonLoadFrom(
                  Append(SelectSeq(d, LAMBDA m : m.key # text[pos].key),
                         [key |-> text[pos].key, value |-> <<>>]),
                  text, pos + 1)
    ELSE JsonLoadFrom(JsonAddNumber(d, text[pos].num), text, pos + 1)

json_load(text) == JsonLoadFrom(<<>>, text, 1)

\* sorted(self.available_topics)
SortedTopics(S) == SelectSeq(TopicOrder, LAMBDA x : x \in S)

\* No index file has been written.
NoIndexFile ==
    [exists |-> FALSE, topic_index |-> <<>>, available_topics |-> <<>>, line_count |-> 0]

\* MetadataIndexer.save_index: the file written.
save_index(ix) ==
    [exists           |-> TRUE,
     topic_index      |-> json_dump(ix.topic_index),
     available_topics |-> SortedTopics(ix.available_topics),
     line_count       |-> ix.line_count]

\* MetadataIndexLoader.__init__
NewIndexLoader == [_topic_index |-> <<>>, _available_topics |-> <<>>, _loaded |-> FALSE]

\* MetadataIndexLoader.load_index: the loader after the call.
load_index(ldr, indexFile) ==
    IF ldr._loaded \/ ~indexFile.exists THEN ldr
    ELSE [_topic_index      |-> json_load(indexFile.topic_index),
          _available_topics |-> indexFile.available_topics,
          _loaded           |-> TRUE]

\* MetadataIndexLoader.search_by_topic_exact on a loaded index:
\* self._topic_index.get(topic, [])
TopicIndexGet(ldr, topic) == DictGet(ldr._topic_index, topic, <<>>)

\* Most lines one call requests, and the widest context on either side.
MaxRequested == 2
MaxContext == 1

LinesCall(line_numbers, context_before, context_after) ==
    [line_numbers   |-> line_numbers,
     context_before |-> context_before,
     context_after  |-> context_after]

NoLinesCall == LinesCall(<<>>, 0, 0)

\* expanded.add(max(1, ln + offset)) for every requested line and offset
Expanded(line_numbers, context_before, context_after) ==
    {Max(1, ln + off) : ln \in SeqRange(line_numbers),
                        off \in (0 - context_before)..context_after}

\* max(target_lines)
MaxOf(S) == CHOOSE x \in S : \A y \in S : y <= x

RECURSIVE ReadLinesFrom(_, _, _, _, _)
\* The loop over the log from line line_num on. A line that is JSON but not
\* an object raises at record["line_number"] = line_num, which ends the loop
\* with the results gathered so far.
ReadLinesFrom(log, line_numbers, target_set, line_num, results) ==
    IF line_num > Len(log) THEN results
    ELSE IF line_num \in target_set /\ log[line_num].kind = "bad_shape"
         THEN results
    ELSE IF line_num \in target_set /\ log[line_num].kind = "record"
         THEN IF line_num > MaxOf(target_set)
              THEN Append(results, [line_number |-> line_num,
                                    is_match |-> line_num \in SeqRange(line_numbers)])
              ELSE ReadLinesFrom(log, line_numbers, target_set, line_num + 1,
                       Append(results, [line_number |-> line_num,
                                        is_match |-> line_num \in SeqRange(line_numbers)]))
    ELSE IF line_num > MaxOf(target_set) THEN results
    ELSE ReadLinesFrom(log, line_numbers, target_set, line_num + 1, results)

\* MetadataIndexLoader.get_messages_by_lines on a log with any kind of line
ReadMessagesByLines(log, line_numbers, context_before, context_after) ==
    IF line_numbers = <<>> THEN <<>>
    ELSE ReadLinesFrom(log, line_numbers,
                       Expanded(line_numbers, context_before, context_after),
                       1, <<>>)

\* A log and the arguments of one get_messages_by_lines call.
LinesInit ==
    /\ chatlog \in SeqsUpTo({LogLine(k, <<>>) : k \in LineKinds}, MaxIndexLog)
    /\ linesArg \in {LinesCall(lns, b, a) :
                         lns \in SeqsUpTo(1..(MaxIndexLog + 1), MaxRequested),
                         b \in 0..MaxContext, a \in 0..MaxContext}
    /\ linesResult = <<>>
    /\ indexer = NewIndexer
    /\ index_file = NoIndexFile
    /\ index_loader = NewIndexLoader
    /\ indexPc = "start"

\* index_loader.get_messages_by_lines(line_numbers, context_before, context_after)
GetMessagesByLines ==
    /\ indexPc = "start"
    /\ linesResult' = ReadMessagesByLines(chatlog, linesArg.line_numbers,
                           linesArg.context_before, linesArg.context_after)
    /\ indexPc' = "returned"
    /\ UNCHANGED <<chatlog, indexer, index_file, index_loader, linesArg>>

LinesNext == GetMessagesByLines /\ IndexFrame

IndexInit ==
    /\ chatlog \in SeqsUpTo(IndexLogLines, MaxIndexLog)
    /\ indexer = NewIndexer
    /\ index_file = NoIndexFile
    /\ index_loader = NewIndexLoader
    /\ indexPc = "start"
    /\ linesArg = NoLinesCall
    /\ linesResult = <<>>

\* indexer.build_index()
BuildIndex ==
    /\ indexPc = "start"
    /\ indexer' = build_index(chatlog).ix
    /\ indexPc' = IF build_index(chatlog).ok THEN "built" ELSE "build_failed"
    /\ UNCHANGED <<chatlog, index_file, index_loader, linesArg, linesResult>>

\* build_and_save_index: "if indexer.build_index(): if indexer.save_index()"
SaveIndex ==
    /\ indexPc = "built"
    /\ index_file' = save_index(indexer)
    /\ indexPc' = "saved"
    /\ UNCHANGED <<chatlog, indexer, index_loader, linesArg, linesResult>>

\* index_loader.load_index(), at any time
LoadIndex ==
    /\ index_loader' = load_index(index_loader, index_file)
    /\ UNCHANGED <<chatlog, indexer, index_file, indexPc, linesArg, linesResult>>

IndexNext ==
    \/ BuildIndex /\ IndexFrame
    \/ SaveIndex /\ IndexFrame
    \/ LoadIndex /\ IndexFrame

\* No index is being built or read.
IndexIdle ==
    /\ chatlog = <<>>
    /\ indexer = NewIndexer
    /\ index_file = NoIndexFile
    /\ index_loader = NewIndexLoader
    /\ indexPc = "start"
    /\ linesArg = NoLinesCall
    /\ linesResult = <<>>

(***************************************************************************)
(* mcp_server.py: the fusion score under the configured weights            *)
(***************************************************************************)
\* Largest magnitude of CHATLOG_SEM_WEIGHT and CHATLOG_KW_WEIGHT, in tenths.
MaxWeightTenths == 10
\* The normalized semantic scores tried are the multiples of 1/NormSteps.
NormSteps == 4
\* A normalized semantic score of 1.0, in units of 1/200.
NORM_ONE == 200

\* float(os.getenv("CHATLOG_SEM_WEIGHT", "0.6")): any number, in tenths
ConfiguredWeights == (0 - MaxWeightTenths)..MaxWeightTenths

NormScores == {(NORM_ONE * i) \div NormSteps : i \in 0..NormSteps}

\* weight_sum = sem_weight + kw_weight if that is positive, else 1.0
weight_sum(sem_weight, kw_weight) ==
    IF sem_weight + kw_weight > 0 THEN sem_weight + kw_weight ELSE 10

\* _score(line_num) under the weights sem_weight / weight_sum and
\* kw_weight / weight_sum, in units of 1/2000: Score is this under the
\* default weights.
ScoreUnder(sem_weight, kw_weight, in_kw, in_sem, norm, high_info) ==
    (IF in_kw THEN (2000 * kw_weight) \div weight_sum(sem_weight, kw_weight) ELSE 0)
    + (IF in_sem
       THEN (10 * sem_weight * norm) \div weight_sum(sem_weight, kw_weight)
       ELSE 0)
    + (IF high_info THEN HIGH_INFO_BONUS ELSE 0)

FusionCase(sem_weight, kw_weight, in_kw, high_info, norm_lo, norm_hi, pc, lo, hi) ==
    [sem_weight |-> sem_weight, kw_weight |-> kw_weight, in_kw |-> in_kw,
     high_info |-> high_info, norm_lo |-> norm_lo, norm_hi |-> norm_hi,
     pc |-> pc, score_lo |-> lo, score_hi |-> hi]

\* The configured weights, and one line of the semantic recall with two
\* semantic scores, norm_lo <= norm_hi, everything else equal.
FusionInit ==
    \E sw \in ConfiguredWeights, kw \in ConfiguredWeights,
       ik \in BOOLEAN, hv \in BOOLEAN, nl \in NormScores, nh \in NormScores :
        /\ nl <= nh
        /\ fusion = FusionCase(sw, kw, ik, hv, nl, nh, "start", 0, 0)

\* _score of the line under either semantic score
ScoreLine ==
    /\ fusion.pc = "start"
    /\ fusion' = [fusion EXCEPT
           !.pc = "scored",
           !.score_lo = ScoreUnder(fusion.sem_weight, fusion.kw_weight, fusion.in_kw,
                                   TRUE, fusion.norm_lo, fusion.high_info),
           !.score_hi = ScoreUnder(fusion.sem_weight, fusion.kw_weight, fusion.in_kw,
                                   TRUE, fusion.norm_hi, fusion.high_info)]

FusionFrame ==
    UNCHANGED <<budgetVars, storeVars, loaderVars, retrieveVars, indexVars, analyzeVars, caseVars>>

FusionNext == ScoreLine /\ FusionFrame

\* No score is being computed.
FusionIdle == fusion = FusionCase(0, 0, FALSE, FALSE, 0, 0, "idle", 0, 0)

(***************************************************************************)
(* mcp_server.py: _analyze_evidence_impl -- the entry of one dimension     *)
(***************************************************************************)
\* Most evidence messages of a dimension in a payload, and largest
\* min_evidence of a dimension.
MaxDimMessages == 4
MaxMinEvidence == 2

\* gaps of the rule-based matrix, as tags:
\* "few" (len(dim_messages) < min_evidence), "no_target" (a target person
\* is given and no message mentions them), "no_counter" (no counter-evidence)
RuleGaps(n_evidence, min_evidence, has_target, mentions, n_counter) ==
    (IF n_evidence < min_evidence THEN <<"few">> ELSE <<>>)
    \o (IF has_target /\ ~mentions THEN <<"no_target">> ELSE <<>>)
    \o (IF n_counter = 0 THEN <<"no_counter">> ELSE <<>>)

\* confidence of the rule-based matrix
RuleConfidence(n_evidence, min_evidence) ==
    IF n_evidence >= min_evidence + 2 THEN "high"
    ELSE IF n_evidence >= min_evidence THEN "medium"
    ELSE "low"

\* What the text-generation service does for generate_evidence_matrix:
\* kind "unconfigured" (no client), "raises", "rule_based" (the answer
\* holds no JSON: the fallback matrix), or "llm" with the entry it wrote for
\* the dimension (names: whether it names the dimension; gaps and
\* confidence: what it wrote, possibly nothing).
LlmAnswer(kind, names, gaps, confidence) ==
    [kind |-> kind, names |-> names, gaps |-> gaps, confidence |-> confidence]

LlmAnswers ==
    {LlmAnswer(k, FALSE, <<>>, "") : k \in {"unconfigured", "raises", "rule_based"}}
    \cup {LlmAnswer("llm", nm, g, c) :
             nm \in BOOLEAN, g \in {<<>>, <<"llm_gap">>}, c \in {"", "llm_high"}}

\* The merge of the service's entry into the rule-based one:
\* if llm_dim.get("gaps"): m["gaps"] = ...; if llm_dim.get("confidence"): ...
MergeLlm(entry, use_llm_analysis, llm) ==
    IF use_llm_analysis /\ llm.kind = "llm" /\ llm.names
    THEN [gaps       |-> IF llm.gaps # <<>> THEN llm.gaps ELSE entry.gaps,
          confidence |-> IF llm.confidence # "" THEN llm.confidence
                         ELSE entry.confidence]
    ELSE entry

\* The gaps and the confidence of one dimension in the returned matrix.
MatrixEntry(n_evidence, min_evidence, has_target, mentions, n_counter, use_llm_analysis, llm) ==
    MergeLlm([gaps       |-> RuleGaps(n_evidence, min_evidence, has_target,
                                      mentions, n_counter),
              confidence |-> RuleConfidence(n_evidence, min_evidence)],
             use_llm_analysis, llm)

MatrixCase(n, me, ht, mt, nc, ul, llm, pc, entry) ==
    [n_evidence |-> n, min_evidence |-> me, has_target |-> ht, mentions |-> mt,
     n_counter |-> nc, use_llm_analysis |-> ul, llm |-> llm, pc |-> pc,
     entry |-> entry]

NoEntry == [gaps |-> <<>>, confidence |-> ""]

\* A dimension of a stored payload by its counts, and the service.
MatrixInit ==
    \E n \in 0..MaxDimMessages, me \in 1..MaxMinEvidence, ht \in BOOLEAN,
       mt \in BOOLEAN, nc \in 0..1, ul \in BOOLEAN, llm \in LlmAnswers :
        /\ (mt => ht /\ n > 0)
        /\ matrixCase = MatrixCase(n, me, ht, mt, nc, ul, llm, "start", NoEntry)

\* analyze_evidence builds the entry of the dimension.
AnalyzeDimension ==
    /\ matrixCase.pc = "start"
    /\ matrixCase' = [matrixCase EXCEPT
           !.pc = "analysed",
           !.entry = MatrixEntry(matrixCase.n_evidence, matrixCase.min_evidence,
                                 matrixCase.has_target, matrixCase.mentions,
                                 matrixCase.n_counter, matrixCase.use_llm_analysis,
                                 matrixCase.llm)]

MatrixFrame ==
    UNCHANGED <<budgetVars, storeVars, loaderVars, retrieveVars, indexVars,
                fusionVars, analyzeVars, cancel_signal, capCase, expandCase, embed>>

MatrixNext == AnalyzeDimension /\ MatrixFrame

MatrixIdle ==
    matrixCase = MatrixCase(0, 0, FALSE, FALSE, 0, FALSE,
                            LlmAnswer("unconfigured", FALSE, <<>>, ""), "idle", NoEntry)

(***************************************************************************)
(* mcp_server.py: _query_chatlog_composed_impl -- the length of the answer *)
(***************************************************************************)
\* Largest CHATLOG_MAX_RETURN_CHARS tried, longest question, longest
\* combined text (header, messages, possibly cleaned by the service).
MaxReturnChars == 6
MaxQuestionLen == 30
MaxCombinedLen == 30

\* len("错误：请提供查询问题。")
NO_QUESTION_CHARS == 11
\* len("未找到与「" + "」相关的聊天记录。")
NOT_FOUND_CHARS == 14
\* len("\n...(已截断)")
TRUNCATION_MARKER_CHARS == 9
\* The allowance for the truncation marker that the limit test grants.
MARKER_ALLOWANCE == 20

\* len(text[:k]) for a text of n characters
SliceLen(n, k) == IF k >= 0 THEN Min(n, k) ELSE Max(0, n + k)

\* len(_cap_text(text, max_chars)) for a text of n characters
cap_text(n, max_chars) ==
    IF n <= max_chars THEN n
    ELSE SliceLen(n, max_chars) + TRUNCATION_MARKER_CHARS

\* The length of the text _query_chatlog_composed_impl returns, with the
\* index loaded, on each of its paths: "no_question" (the question is
\* empty), "not_found" (no topic and no semantic match), "found".
ComposedTextLen(path, question_len, combined_len, max_return_chars) ==
    IF path = "no_question" THEN NO_QUESTION_CHARS
    ELSE IF path = "not_found" THEN NOT_FOUND_CHARS + question_len
    ELSE cap_text(combined_len, max_return_chars)

CapCase(max_return_chars, question_len, path, combined_len, pc, text_len) ==
    [max_return_chars |-> max_return_chars, question_len |-> question_len,
     path |-> path, combined_len |-> combined_len, pc |-> pc, text_len |-> text_len]

\* A limit, a question and what the recall and the formatting give.
CapInit ==
    \E mx \in 0..MaxReturnChars, q \in 0..MaxQuestionLen,
       path \in {"no_question", "not_found", "found"}, c \in 0..MaxCombinedLen :
        /\ (path = "no_question") = (q = 0)
        /\ (path # "found" => c = 0)
        /\ capCase = CapCase(mx, q, path, c, "start", 0)

\* compose_chatlog_query_sync: run the query, return the text of its result.
ComposeQuery ==
    /\ capCase.pc = "start"
    /\ capCase' = [capCase EXCEPT
           !.pc = "returned",
           !.text_len = ComposedTextLen(capCase.path, capCase.question_len,
                                        capCase.combined_len, capCase.max_return_chars)]

CapFrame ==
    UNCHANGED <<budgetVars, storeVars, loaderVars, retrieveVars, indexVars,
                fusionVars, analyzeVars, matrixCase, cancel_signal, expandCase, embed>>

CapNext == ComposeQuery /\ CapFrame

CapIdle == capCase = CapCase(0, 0, "no_question", 0, "idle", 0)

(***************************************************************************)
(* cleaner.py: expand_query without a text-understanding service           *)
(***************************************************************************)
\* CleanerConfig.max_topics, CleanerConfig.min_topics
MAX_TOPICS == 20
MIN_TOPICS == 10

\* Most available topics that contain a word of the question: as many as
\* max_topics, so that they alone can fill the answer.
MaxMatching == 20
\* How many of them a list of available topics has.
MatchingCounts == {0, 1, MaxMatching \div 2, MaxMatching}

\* Topic names: "loan" is 借贷, "money" 金钱, "salary" 工资, "job" 职业,
\* "spending_habit" 消费习惯, "spending" 消费, "review" 评价,
\* "personal_review" 个人评价, "character_review" 人品评价,
\* "person_review" 人物评价, "asset_review" 资产评价, "ask" 询问.
desired ==
    <<"loan", "money", "salary", "job", "spending_habit", "spending", "review",
      "personal_review", "character_review", "person_review", "asset_review">>

\* The topics the topic test of the fallback looks for.
BorrowTopics == <<"loan", "money", "salary", "job", "spending_habit", "review">>
\* Those of them that no step but the injection treats by name.
PlainBorrowTopics == <<"money", "salary", "job", "spending_habit">>
\* The other entries of desired.
OtherDesired ==
    <<"spending", "personal_review", "character_review", "person_review", "asset_review">>

\* Available topics that contain the word of the question ("q").
MatchingNames ==
    <<"m1", "m2", "m3", "m4", "m5", "m6", "m7", "m8", "m9", "m10", "m11",
      "m12", "m13", "m14", "m15", "m16", "m17", "m18", "m19", "m20", "m21", "m22">>

InSeq(x, seq) == \E i \in 1..Len(seq) : seq[i] = x

\* seq[:k] for k >= 0
Prefix(seq, k) == SubSeq(seq, 1, Min(k, Len(seq)))

\* trigger: "jie" (the question contains 借), "credit" (it contains another
\* trigger of _is_borrow_question, such as 信用, and no 借), "none".
Question(trigger, has_wen) == [trigger |-> trigger, has_wen |-> has_wen]

\* [t.strip() for t in available if t.strip()]
RECURSIVE StrippedTopics(_)
StrippedTopics(available) ==
    IF available = <<>> THEN <<>>
    ELSE IF Strip(Head(available)) = ""
         THEN StrippedTopics(Tail(available))
         ELSE <<Strip(Head(available))>> \o StrippedTopics(Tail(available))

\* [t for t in topics if t in allowed]
RECURSIVE OnlyAllowed(_, _)
OnlyAllowed(topics, allowed) ==
    IF topics = <<>> THEN <<>>
    ELSE IF InSeq(Head(topics), allowed)
         THEN <<Head(topics)>> \o OnlyAllowed(Tail(topics), allowed)
         ELSE OnlyAllowed(Tail(topics), allowed)

\* _normalize_metadata(...)["topics"] for topics that are non-blank strings
normalize_topics(topics, available) ==
    IF available # <<>>
    THEN OnlyAllowed(topics, StrippedTopics(available))
    ELSE topics

\* _fallback_metadata_classification(question, available)["topics"]
fallback_metadata_classification(question, available) ==
    normalize_topics(
        (IF question.trigger = "jie" THEN <<"loan">> ELSE <<>>)
            \o (IF question.has_wen THEN <<"ask">> ELSE <<>>),
        available)

is_borrow_question(question) == question.trigger # "none"

\* for item in items: if item in available_set and item not in topic_set: append
RECURSIVE InjectFrom(_, _, _)
InjectFrom(topics, allowed, items) ==
    IF items = <<>> THEN topics
    ELSE InjectFrom(
             IF InSeq(Head(items), allowed) /\ ~InSeq(Head(items), topics)
             THEN Append(topics, Head(items)) ELSE topics,
             allowed, Tail(items))

\* A variant that appends nothing.
inject_borrow_topics_Nothing(topics, available) == topics

inject_borrow_topics(topics, available) ==
    IF available = <<>> THEN topics
    ELSE InjectFrom(topics, StrippedTopics(available), desired)

\* _fallback_keyword_extraction: the target person, the hints of a 借
\* question ("asset" is 资产, "credit" 信誉), the word of the question, and
\* the preferred topics found in available as they are written.
RECURSIVE AppendMissing(_, _, _)
AppendMissing(keywords, items, available) ==
    IF items = <<>> THEN keywords
    ELSE AppendMissing(
             IF InSeq(Head(items), available) /\ ~InSeq(Head(items), keywords)
             THEN Append(keywords, Head(items)) ELSE keywords,
             Tail(items), available)

fallback_keyword_extraction(question, target_person, available) ==
    AppendMissing(
        (IF target_person # "" THEN <<target_person>> ELSE <<>>)
            \o (IF question.trigger = "jie"
                THEN <<"salary", "job", "spending_habit", "asset", "credit", "review">>
                ELSE <<>>)
            \o <<"q">>,
        desired, available)

\* term_lower in topic.lower()
TermInTopic(term, topic) ==
    \/ term = topic
    \/ term = "q" /\ InSeq(topic, MatchingNames)
    \/ term = "review" /\ topic \in {"personal_review", "character_review",
                                      "person_review", "asset_review"}
    \/ term = "spending" /\ topic = "spending_habit"
    \/ term = "asset" /\ topic = "asset_review"

\* for item in topics: if item in allowed and item not in topic_list: append
RECURSIVE KeepAllowed(_, _, _)
KeepAllowed(topic_list, topics, allowed) ==
    IF topics = <<>> THEN topic_list
    ELSE KeepAllowed(
             IF InSeq(Head(topics), allowed) /\ ~InSeq(Head(topics), topic_list)
             THEN Append(topic_list, Head(topics)) ELSE topic_list,
             Tail(topics), allowed)

\* for topic in allowed: stop at max_topics; append the topics the term is in
RECURSIVE AddForTerm(_, _, _, _)
AddForTerm(topic_list, term, topics_left, max_topics) ==
    IF topics_left = <<>> \/ Len(topic_list) >= max_topics THEN topic_list
    ELSE AddForTerm(
             IF ~InSeq(Head(topics_left), topic_list) /\ TermInTopic(term, Head(topics_left))
             THEN Append(topic_list, Head(topics_left)) ELSE topic_list,
             term, Tail(topics_left), max_topics)

\* for term in terms: stop at max_topics; scan allowed
RECURSIVE AddForTerms(_, _, _, _)
AddForTerms(topic_list, terms, allowed, max_topics) ==
    IF terms = <<>> \/ Len(topic_list) >= max_topics THEN topic_list
    ELSE AddForTerms(AddForTerm(topic_list, Head(terms), allowed, max_topics),
                     Tail(terms), allowed, max_topics)

\* for topic in allowed: stop at min_count; append what is not there yet
RECURSIVE FillTo(_, _, _)
FillTo(topic_list, topics_left, min_count) ==
    IF topics_left = <<>> \/ Len(topic_list) >= min_count THEN topic_list
    ELSE FillTo(IF ~InSeq(Head(topics_left), topic_list)
                THEN Append(topic_list, Head(topics_left)) ELSE topic_list,
                Tail(topics_left), min_count)

\* topic_list.insert(0, target_person) when the person is an allowed topic
WithTargetFirst(topic_list, target_person, allowed) ==
    IF target_person # "" /\ InSeq(target_person, allowed) /\ ~InSeq(target_person, topic_list)
    THEN <<target_person>> \o topic_list
    ELSE topic_list

ensure_topic_coverage(question, target_person, keywords, topics, available) ==
    IF available = <<>> THEN Prefix(topics, MAX_TOPICS)
    ELSE Prefix(
             FillTo(
                 AddForTerms(
                     WithTargetFirst(
                         KeepAllowed(<<>>, topics, StrippedTopics(available)),
                         target_person, StrippedTopics(available)),
                     FirstOccurrences(keywords) \o <<"q">>,
                     StrippedTopics(available), MAX_TOPICS),
                 StrippedTopics(available),
                 Min(MIN_TOPICS, Len(StrippedTopics(available)))),
             MAX_TOPICS)

\* expand_query(...)[1]["topics"] when no client is configured
expand_query(question, target_person, available) ==
    ensure_topic_coverage(
        question, target_person,
        fallback_keyword_extraction(question, target_person, available),
        IF is_borrow_question(question)
        THEN inject_borrow_topics(
                 fallback_metadata_classification(question, available),
                 available)
        ELSE fallback_metadata_classification(question, available),
        available)

ExpandCase(question, target_person, available, pc, topics) ==
    [question |-> question, target_person |-> target_person,
     available_topics |-> available, pc |-> pc, topics |-> topics]

\* Any question, with or without a target person, over any list of
\* available topics: blank and padded entries, topics that contain the
\* word of the question, a person, 询问, and any of the desired topics.
ExpandInit ==
    \E trigger \in {"none", "jie", "credit"}, has_wen \in BOOLEAN,
       target_person \in {"", "target"}, person_is_topic \in BOOLEAN,
       padded \in BOOLEAN, n_matching \in MatchingCounts, ask_is_topic \in BOOLEAN,
       loan \in BOOLEAN, review \in BOOLEAN, n_plain \in 0..Len(PlainBorrowTopics),
       others \in BOOLEAN :
        expandCase = ExpandCase(
            Question(trigger, has_wen), target_person,
            (IF padded THEN <<"  ", " loan">> ELSE <<>>)
                \o Prefix(MatchingNames, n_matching)
                \o (IF person_is_topic THEN <<"target">> ELSE <<>>)
                \o (IF ask_is_topic THEN <<"ask">> ELSE <<>>)
                \o (IF loan THEN <<"loan">> ELSE <<>>)
                \o Prefix(PlainBorrowTopics, n_plain)
                \o (IF review THEN <<"review">> ELSE <<>>)
                \o (IF others THEN OtherDesired ELSE <<>>),
            "start", <<>>)

ExpandQuery ==
    /\ expandCase.pc = "start"
    /\ expandCase' = [expandCase EXCEPT
           !.pc = "returned",
           !.topics = expand_query(expandCase.question, expandCase.target_person,
                                   expandCase.available_topics)]

ExpandFrame ==
    UNCHANGED <<budgetVars, storeVars, loaderVars, retrieveVars, indexVars,
                fusionVars, analyzeVars, matrixCase, cancel_signal, capCase, embed>>

ExpandNext == ExpandQuery /\ ExpandFrame

ExpandIdle == expandCase = ExpandCase(Question("none", FALSE), "", <<>>, "idle", <<>>)

(***************************************************************************)
(* semantic_index.py: _embed_texts, build_from_chatlog, search             *)
(***************************************************************************)
\* Most lines with content in the log, largest config.batch_size.
MaxTexts == 3
MaxBatchSize == 2
\* for attempt in range(3)
EMBED_ATTEMPTS == 3
\* search(query, top_k=50), and a caller that asks for one hit
DEFAULT_TOP_K == 50
TopKArgs == {1, DEFAULT_TOP_K}

\* pc: "start" (build_from_chatlog called), "build_call" and "search_call"
\* (inside _embed_texts, about to attempt), "built" (the build returned),
\* "build_failed" (the build raised), "searched", "search_failed".
\* matrix_rows is len(embeddings), next_text the i of the batch loop,
\* hits the outcome of search: "lines", "empty", "no_vector" (IndexError
\* on the answer), "past_the_end" (IndexError on line_numbers).
EmbedState(has_key, n_texts, batch_size, top_k, pc, next_text, attempt, matrix_rows, hits) ==
    [has_key |-> has_key, line_numbers |-> n_texts, batch_size |-> batch_size,
     top_k |-> top_k, pc |-> pc, next_text |-> next_text, attempt |-> attempt,
     matrix_rows |-> matrix_rows, hits |-> hits]

EmbedInit ==
    \E has_key \in BOOLEAN, n_texts \in 0..MaxTexts, batch_size \in 1..MaxBatchSize,
       top_k \in TopKArgs :
        embed = EmbedState(has_key, n_texts, batch_size, top_k, "start", 0, 0, 0, "none")

\* len(texts[i:i + batch_size])
BatchLen(e) == Min(e.batch_size, e.line_numbers - e.next_text)

\* A variant whose loop starts over after the last attempt.
NextAttempt_Again(attempt) == (attempt + 1) % EMBED_ATTEMPTS

\* The next value of the loop variable of "for attempt in range(3)".
NextAttempt(attempt) == attempt + 1

\* build_from_chatlog up to the first batch, or to the end without texts.
BuildStart ==
    /\ embed.pc = "start"
    /\ embed' = [embed EXCEPT
           !.pc = IF ~embed.has_key THEN "build_failed"
                  ELSE IF embed.line_numbers = 0 THEN "built"
                  ELSE "build_call"]

\* What _embed_texts returns to its caller: the build extends embeddings
\* and goes on to the next batch or saves; the search takes vectors[0],
\* which raises IndexError on an empty answer, and maps the top_k rows it
\* ranks, the last of them row, to line_numbers.
Returned(e, n_vectors, row) ==
    IF e.pc = "build_call"
    THEN [e EXCEPT
             !.matrix_rows = e.matrix_rows + n_vectors,
             !.next_text = e.next_text + e.batch_size,
             !.attempt = 0,
             !.pc = IF e.next_text + e.batch_size < e.line_numbers
                    THEN "build_call" ELSE "built"]
    ELSE IF n_vectors = 0 THEN [e EXCEPT !.pc = "search_failed", !.hits = "no_vector"]
    ELSE IF e.matrix_rows = 0 THEN [e EXCEPT !.pc = "searched", !.hits = "empty"]
    ELSE IF row >= e.line_numbers
         THEN [e EXCEPT !.pc = "search_failed", !.hits = "past_the_end"]
         ELSE [e EXCEPT !.pc = "searched", !.hits = "lines"]

\* The texts one call of _embed_texts sends.
SentTexts(e) == IF e.pc = "build_call" THEN BatchLen(e) ELSE 1

\* The rows that can be the last of the min(top_k, rows) ranked rows.
LastRows(e) ==
    IF e.matrix_rows = 0 THEN {0}
    ELSE (Min(e.top_k, e.matrix_rows) - 1)..(e.matrix_rows - 1)

\* One attempt answered within its timeout by a document with any number
\* of vectors: fewer than the texts, as many, one more.
AttemptAnswered ==
    /\ embed.pc \in {"build_call", "search_call"}
    /\ embed.attempt < EMBED_ATTEMPTS
    /\ \E n_vectors \in 0..(SentTexts(embed) + 1), row \in LastRows(embed) :
           embed' = Returned(embed, n_vectors, row)

\* One attempt that raises (refused, timed out after timeout=60, not
\* JSON), followed by the sleep.
AttemptRaises ==
    /\ embed.pc \in {"build_call", "search_call"}
    /\ embed.attempt < EMBED_ATTEMPTS
    /\ embed' = [embed EXCEPT !.attempt = NextAttempt(embed.attempt)]

\* The loop is over: raise RuntimeError("Embedding request failed").
GiveUp ==
    /\ embed.pc \in {"build_call", "search_call"}
    /\ embed.attempt >= EMBED_ATTEMPTS
    /\ embed' = [embed EXCEPT
           !.pc = IF embed.pc = "build_call" THEN "build_failed" ELSE "search_failed"]

\* search(query, top_k) on the index the build left loaded.
SearchStart ==
    /\ embed.pc = "built"
    /\ embed' = [embed EXCEPT
           !.pc = IF embed.has_key THEN "search_call" ELSE "search_failed",
           !.attempt = 0]

EmbedFrame ==
    UNCHANGED <<budgetVars, storeVars, loaderVars, retrieveVars, indexVars,
                fusionVars, analyzeVars, matrixCase, cancel_signal, capCase, expandCase>>

EmbedNext ==
    \/ BuildStart /\ EmbedFrame
    \/ AttemptAnswered /\ EmbedFrame
    \/ AttemptRaises /\ EmbedFrame
    \/ GiveUp /\ EmbedFrame
    \/ SearchStart /\ EmbedFrame

EmbedIdle == embed = EmbedState(FALSE, 0, 1, 1, "idle", 0, 0, 0, "none")

\* None of the single operations below is running.
CasesIdle == MatrixIdle /\ CancelIdle /\ CapIdle /\ ExpandIdle /\ EmbedIdle

(***************************************************************************)
(* Specifications                                                          *)
(***************************************************************************)
vars == <<budgetVars, storeVars, loaderVars, retrieveVars, indexVars, fusionVars, analyzeVars, caseVars>>

\* The loader at rest: no file is being read.
LoaderIdle ==
    /\ file = NoFile
    /\ messages = None
    /\ loaded = FALSE
    /\ loadPc = "start"
    /\ loadLine = 0
    /\ loadResult = "none"

\* The budget manager at rest, with one configuration.
BudgetIdle ==
    /\ mgr = [max_calls |-> CfgMaxToolCalls, max_messages |-> CfgMaxMessages,
              max_chars |-> CfgMaxChars]
    /\ budgets = [s \in {} |-> None]
    /\ taskPc = [t \in Tasks |-> "idle"]
    /\ lastCheck = "none"

\* Concurrent tasks of one session using the budget manager.
InitBudgetSpec == BudgetInit /\ StoreInit /\ LoaderIdle /\ RetrieveIdle /\ IndexIdle /\ FusionIdle /\ AnalyzeIdle /\ CasesIdle
SpecBudget == InitBudgetSpec /\ [][BudgetNext]_vars

\* Calls of _store_evidence and _get_evidence in any order.
InitStoreSpec == BudgetIdle /\ StoreInit /\ LoaderIdle /\ RetrieveIdle /\ IndexIdle /\ FusionIdle /\ AnalyzeIdle /\ CasesIdle
SpecStore == InitStoreSpec /\ [][StoreNext]_vars

\* One ChatlogLoader.load() over any log file.
InitLoaderSpec == BudgetIdle /\ StoreInit /\ LoaderInit /\ RetrieveIdle /\ IndexIdle /\ FusionIdle /\ AnalyzeIdle /\ CasesIdle
SpecLoader == InitLoaderSpec /\ [][LoaderNext]_vars

\* One build_and_save_index over any log, and loads of the saved index.
InitIndexSpec == BudgetIdle /\ StoreInit /\ LoaderIdle /\ RetrieveIdle /\ IndexInit /\ FusionIdle /\ AnalyzeIdle /\ CasesIdle
SpecIndex == InitIndexSpec /\ [][IndexNext]_vars

\* One get_messages_by_lines call over any log.
InitLinesSpec == BudgetIdle /\ StoreInit /\ LoaderIdle /\ RetrieveIdle /\ LinesInit /\ FusionIdle /\ AnalyzeIdle /\ CasesIdle
SpecLines == InitLinesSpec /\ [][LinesNext]_vars

\* One line scored under any configured weights.
InitFusionSpec ==
    BudgetIdle /\ StoreInit /\ LoaderIdle /\ RetrieveIdle /\ IndexIdle /\ FusionInit /\ AnalyzeIdle /\ CasesIdle
SpecFusion == InitFusionSpec /\ [][FusionNext]_vars

\* One dimension analysed under any answer of the text-generation service.
InitMatrixSpec ==
    BudgetIdle /\ StoreInit /\ LoaderIdle /\ RetrieveIdle /\ IndexIdle /\ FusionIdle
    /\ AnalyzeIdle /\ MatrixInit /\ CancelIdle /\ CapIdle /\ ExpandIdle /\ EmbedIdle
SpecMatrix == InitMatrixSpec /\ [][MatrixNext]_vars

\* One retrieve call and a cancellation signal.
InitCancelSpec ==
    BudgetIdle /\ StoreInit /\ LoaderIdle /\ CancelInit /\ IndexIdle /\ FusionIdle
    /\ AnalyzeIdle /\ CasesIdle
SpecCancel == InitCancelSpec /\ [][CancelNext]_vars

\* One composed query under any limit.
InitCapSpec ==
    BudgetIdle /\ StoreInit /\ LoaderIdle /\ RetrieveIdle /\ IndexIdle /\ FusionIdle
    /\ AnalyzeIdle /\ MatrixIdle /\ CancelIdle /\ CapInit /\ ExpandIdle /\ EmbedIdle
SpecCap == InitCapSpec /\ [][CapNext]_vars

\* One expand_query call without a text-understanding service.
InitExpandSpec ==
    BudgetIdle /\ StoreInit /\ LoaderIdle /\ RetrieveIdle /\ IndexIdle /\ FusionIdle
    /\ AnalyzeIdle /\ MatrixIdle /\ CancelIdle /\ CapIdle /\ ExpandInit /\ EmbedIdle
SpecExpand == InitExpandSpec /\ [][ExpandNext]_vars

\* One build of the semantic index and one search on it, under any
\* conduct of the embedding service.
InitEmbedSpec ==
    BudgetIdle /\ StoreInit /\ LoaderIdle /\ RetrieveIdle /\ IndexIdle /\ FusionIdle
    /\ AnalyzeIdle /\ MatrixIdle /\ CancelIdle /\ CapIdle /\ ExpandIdle /\ EmbedInit
SpecEmbed == InitEmbedSpec /\ [][EmbedNext]_vars

\* The same, where every step that can be taken is taken in the end: an
\* attempt returns or raises within its timeout, a sleep ends.
InitEmbedFairSpec ==
    BudgetIdle /\ StoreInit /\ LoaderIdle /\ RetrieveIdle /\ IndexIdle /\ FusionIdle
    /\ AnalyzeIdle /\ MatrixIdle /\ CancelIdle /\ CapIdle /\ ExpandIdle /\ EmbedInit
SpecEmbedFair == InitEmbedFairSpec /\ [][EmbedNext]_vars /\ WF_vars(EmbedNext)

\* Scenario C: the session's budget manager is configured with
\* CHATLOG_MAX_TOOL_CALLS = 1.
BudgetScenarioC ==
    /\ mgr = [max_calls |-> 1, max_messages |-> CfgMaxMessages, max_chars |-> CfgMaxChars]
    /\ budgets = [s \in {} |-> None]
    /\ taskPc = [t \in Tasks |-> "idle"]
    /\ lastCheck = "none"

\* Retrieve calls of one session, one after the other.
InitRetrieveSpec == BudgetScenarioC /\ StoreInit /\ LoaderIdle /\ RetrieveInit /\ IndexIdle /\ FusionIdle /\ AnalyzeIdle /\ CasesIdle
SpecRetrieve == InitRetrieveSpec /\ [][RetrieveNext]_vars

(***************************************************************************)
(* Claims about the budget manager (SpecBudget)                            *)
(***************************************************************************)
Counters(b) == <<b.tool_calls, b.loaded_messages, b.total_result_chars>>

\* Idle: no usage recorded; Exhausted: a ceiling is reached; Active: between.
BudgetPhase(bs, s) ==
    IF s \notin DOMAIN bs \/ Counters(bs[s]) = <<0, 0, 0>> THEN "Idle"
    ELSE IF is_over_budget(bs[s]) THEN "Exhausted"
    ELSE "Active"

\* C4: once any one of the three counters of a session's budget has reached
\* its ceiling, check_budget returns false for that session.
C4_CheckDeniedOnceAnyCeilingReached ==
    [][\A t \in Tasks, s \in Sessions :
         (/\ s \in DOMAIN budgets
          /\ is_over_budget(budgets[s])
          /\ CheckBudget(t, s)) => lastCheck' = "denied"]_vars

\* C5: between two clears no usage counter of a session decreases, so an
\* over-budget session stays over budget, and only clear_budget (or clear_all)
\* takes a session that has recorded usage back to the Idle state.
C5_BudgetMonotoneUntilClear ==
    [][\A s \in Sessions :
         LET cleared == ClearBudget(s) \/ ClearAll
         IN  /\ (s \in DOMAIN budgets /\ ~cleared) =>
                   /\ s \in DOMAIN budgets'
                   /\ budgets'[s].tool_calls >= budgets[s].tool_calls
                   /\ budgets'[s].loaded_messages >= budgets[s].loaded_messages
                   /\ budgets'[s].total_result_chars >= budgets[s].total_result_chars
                   /\ (is_over_budget(budgets[s]) => is_over_budget(budgets'[s]))
             /\ (BudgetPhase(budgets, s) # "Idle" /\ BudgetPhase(budgets', s) = "Idle")
                   => cleared]_vars

\* C5 witness: a session went Idle -> Active -> Exhausted: several calls were
\* recorded and a ceiling is reached.
C5_Witness ==
    \E s \in DOMAIN budgets :
        /\ is_over_budget(budgets[s])
        /\ budgets[s].tool_calls >= 2
        /\ budgets[s].total_result_chars >= 1
        /\ budgets[s].loaded_messages >= 1

\* C6: under any interleaving of tasks that check before acting and record
\* after, tool_calls never exceeds max_tool_calls.
C6_NoToolCallOvershoot ==
    \A s \in DOMAIN budgets : budgets[s].tool_calls <= budgets[s].max_tool_calls

(***************************************************************************)
(* Claims about the evidence store (SpecStore)                             *)
(***************************************************************************)
OrderSet == {EVIDENCE_STORE_ORDER[i] : i \in 1..Len(EVIDENCE_STORE_ORDER)}

\* C7: after n stores on a store of capacity C >= 1, with any reads in
\* between, exactly the last min(n, C) handles issued are retrievable (each
\* with the payload it was stored with) and every earlier handle is gone.
C7_FifoEviction ==
    LET n    == Len(issued)
        keep == Min(n, CHATLOG_EVIDENCE_CACHE_SIZE)
    IN  \A i \in 1..n :
            get_evidence(EVIDENCE_STORE, issued[i].handle) =
                (IF i > n - keep THEN issued[i].payload ELSE None)

\* C7 witness: more handles were issued than the capacity, the oldest is
\* gone, and a read that hit a stored handle has happened.
C7_Witness ==
    /\ Len(issued) > CHATLOG_EVIDENCE_CACHE_SIZE
    /\ issued[1].handle \notin DOMAIN EVIDENCE_STORE
    /\ getArg \in DOMAIN EVIDENCE_STORE
    /\ getResult # None

\* C8: under any interleaving of retrieve calls the store never holds more
\* entries than its capacity, and the handle-to-payload map has exactly the
\* handles of the insertion-order list, each once.
C8_StoreConsistent ==
    /\ Cardinality(DOMAIN EVIDENCE_STORE) <= CHATLOG_EVIDENCE_CACHE_SIZE
    /\ DOMAIN EVIDENCE_STORE = OrderSet
    /\ Cardinality(OrderSet) = Len(EVIDENCE_STORE_ORDER)

\* C8 witness: the store is full after an eviction while two retrieve calls
\* are in flight at once.
C8_Witness ==
    /\ Len(issued) > CHATLOG_EVIDENCE_CACHE_SIZE
    /\ Len(EVIDENCE_STORE_ORDER) = CHATLOG_EVIDENCE_CACHE_SIZE
    /\ \A c \in Callers : pending[c] # None

\* C9: _get_evidence with a handle that is not in the store (never issued,
\* or evicted) returns None, does not raise, and leaves the store unchanged.
C9_GetMissingReturnsNone ==
    [][\A h \in Handles :
         (h \notin DOMAIN EVIDENCE_STORE /\ GetEvidence(h)) =>
             /\ getResult' = None
             /\ EVIDENCE_STORE' = EVIDENCE_STORE
             /\ EVIDENCE_STORE_ORDER' = EVIDENCE_STORE_ORDER]_vars

\* C9 witness: the latest read asked for a handle that had been issued and
\* evicted, and got None.
C9_Witness ==
    /\ \E i \in 1..Len(issued) : issued[i].handle = getArg
    /\ getArg \notin DOMAIN EVIDENCE_STORE
    /\ getResult = None

(***************************************************************************)
(* Claims about the loader (SpecLoader)                                    *)
(***************************************************************************)
\* C10: for a log with N valid and M malformed lines load() succeeds and the
\* message count is N; a missing file is the only failure.
C10_LoadCountsValidLines ==
    loadPc = "returned" =>
        IF file = NoFile
        THEN loadResult = "False"
        ELSE loadResult = "True" /\ message_count = CountKind(file, {"record"})

(***************************************************************************)
(* Claims about retrieve_evidence                                          *)
(***************************************************************************)
\* The number of evidence items in the outputs of the dimensions.
TotalEmitted(outputs) ==
    Len(Flatten(List([i \in 1..Len(outputs) |-> outputs[i].evidence])))

\* C1: in one retrieve_evidence call, whatever dimensions and integer
\* max_total_messages / max_per_dimension the caller passes, the evidence
\* items emitted over all dimensions never number more than
\* max_total_messages (read for a ceiling below zero as: nothing is emitted).
C1_EmittedWithinTotal ==
    TotalEmitted(dimension_outputs) <= Max(0, max_total_messages)

\* C2: once the remaining budget of a retrieval (called with positive
\* ceilings) has been used up by the dimensions before, every later
\* dimension of the request still appears in the result, with empty evidence
\* and its coverage plan (topic seeds the index knows, keyword seeds,
\* semantic queries, counter queries).
C2_ExhaustedDimensionsStillReported ==
    (rpc = "done" /\ result.kind = "success" /\ brokeAt >= 2 /\ PositiveCeilings) =>
        \A i \in brokeAt..Len(dims) :
            /\ i <= Len(result.dimensions)
            /\ result.dimensions[i].name = dims[i].name
            /\ result.dimensions[i].evidence = <<>>
            /\ result.dimensions[i].coverage.keyword_seeds = dims[i].keyword_seeds
            /\ result.dimensions[i].coverage.semantic_queries = dims[i].semantic_queries
            /\ result.dimensions[i].coverage.counter_queries = dims[i].counter_queries
            /\ SeqRange(result.dimensions[i].coverage.topic_seeds)
                   = SeqRange(dims[i].topic_seeds) \cap available_topics

\* C3: with max_tool_calls = 1, the second retrieve call of the session
\* (dimensions given, positive ceilings) returns without raising, with no
\* evidence, and the session's gap annotation names the tool-call ceiling.
C3_SecondCallEmptyWithGap ==
    (/\ mgr.max_calls = 1
     /\ callCount = 2 /\ rpc \in {"done", "raised"} /\ result.kind # "error"
     /\ req.dimensions # <<>> /\ PositiveCeilings) =>
        /\ rpc = "done"
        /\ TotalEmitted(result.dimensions) = 0
        /\ "tool_calls" \in
               SeqRange(get_gap_annotation(get_budget(budgets, mgr, "s1")["s1"]))

(***************************************************************************)
(* Claims about lookups in the loaded log (SpecLoader)                     *)
(***************************************************************************)
\* C11: after a load, get_message(n) returns the loaded message whose
\* line_number is n, and None for a line number no loaded message has.
C11_GetMessageByLineNumber ==
    (loadPc = "returned" /\ loaded) =>
        \A n \in 0..(Len(file) + 1) :
            get_message(messages, n) =
                (IF \E i \in 1..Len(messages) : messages[i].line_number = n
                 THEN ChatMessage(n) ELSE NoMessage)

(***************************************************************************)
(* Claims about the topic index (SpecIndex)                                *)
(***************************************************************************)
StrictlyAscending(seq) == \A i \in 1..(Len(seq) - 1) : seq[i] < seq[i + 1]

\* C12: for every topic t in available_topics of the index built from a
\* log, search_by_topic_exact(t) is strictly ascending (so without
\* duplicates) and every line it returns is a record that lists t.
C12_TopicSearchAscendingDeduplicated ==
    index_loader._loaded =>
        \A t \in SeqRange(index_loader._available_topics) :
            /\ StrictlyAscending(TopicIndexGet(index_loader, t))
            /\ \A ln \in SeqRange(TopicIndexGet(index_loader, t)) :
                   /\ ln \in 1..Len(chatlog)
                   /\ chatlog[ln].kind = "record"
                   /\ t \in {Strip(x) : x \in SeqRange(chatlog[ln].topics)}

\* C13: after build, save and load, search_by_topic_exact gives for every
\* topic what the freshly built index holds for it.
C13_IndexRoundTrip ==
    index_loader._loaded =>
        \A t \in SeqRange(TopicOrder) \cup {"ghost"} :
            TopicIndexGet(index_loader, t) = DictGet(indexer.topic_index, t, <<>>)

\* C13 witness: a loaded index with two topics, one of them listing a line
\* twice.
C13_Witness ==
    /\ index_loader._loaded
    /\ Len(index_loader._topic_index) >= 2
    /\ \E t \in SeqRange(index_loader._available_topics) :
           /\ Len(TopicIndexGet(index_loader, t)) >= 3
           /\ ~StrictlyAscending(TopicIndexGet(index_loader, t))

(***************************************************************************)
(* Claims about get_messages_by_lines (SpecLines)                          *)
(***************************************************************************)
\* The records of the log in the windows [max(1, n-b), n+a] of the
\* requested lines n.
WindowRecords ==
    {ln \in 1..Len(chatlog) :
        /\ chatlog[ln].kind = "record"
        /\ \E i \in 1..Len(linesArg.line_numbers) :
               /\ Max(1, linesArg.line_numbers[i] - linesArg.context_before) <= ln
               /\ ln <= linesArg.line_numbers[i] + linesArg.context_after}

\* C14: a call with a non-empty list of requested lines returns, in
\* ascending line order, exactly the records of the log lying in the
\* windows of the requested lines, each flagged is_match exactly when its
\* line was requested.
C14_WindowsAscendingFlagged ==
    (indexPc = "returned" /\ linesArg.line_numbers # <<>>) =>
        /\ Len(linesResult) = Cardinality(WindowRecords)
        /\ \A i \in 1..Len(linesResult) :
               /\ linesResult[i].line_number = Ascending(WindowRecords)[i]
               /\ linesResult[i].is_match =
                      (linesResult[i].line_number \in SeqRange(linesArg.line_numbers))

(***************************************************************************)
(* Claims about ranking and fusion (SpecRetrieve)                          *)
(***************************************************************************)
\* ranked_lines of a recall, and the fusion score of one of its lines.
RankedLines(rec) == RankLines(CombinedLines(rec), KeywordHits(rec), rec.semantic_lines)
FusionScore(rec, ln) == Score(ln, KeywordHits(rec), rec.semantic_lines)

\* The ranking is by score descending and, among equal scores, by line
\* number descending.
RankedLargerLineFirst(rec, ranked) ==
    \A i, j \in 1..Len(ranked) :
        i < j =>
            \/ FusionScore(rec, ranked[i]) > FusionScore(rec, ranked[j])
            \/ /\ FusionScore(rec, ranked[i]) = FusionScore(rec, ranked[j])
               /\ ranked[i] > ranked[j]

\* Among candidates of equal score, no line left out is larger than one
\* that was emitted.
CutKeepsLargerLines(rec, emittedLines) ==
    \A x \in emittedLines, y \in CombinedLines(rec) \ emittedLines :
        FusionScore(rec, x) = FusionScore(rec, y) => x > y

\* C15: every dimension reported so far was ranked by fusion score
\* descending with the larger line number first among equal scores, and
\* where the cut fell inside a group of equal scores the larger line
\* numbers are the ones in its evidence.
C15_TieBreakLargerLineFirst ==
    (PositiveCeilings /\ rpc \in {"loop", "finish", "done"}) =>
        \A k \in 1..Len(dimension_outputs) :
            /\ RankedLargerLineFirst(RecallLines(dims[k], req, env),
                                     RankedLines(RecallLines(dims[k], req, env)))
            /\ CutKeepsLargerLines(RecallLines(dims[k], req, env),
                   {dimension_outputs[k].evidence[i].line :
                        i \in 1..Len(dimension_outputs[k].evidence)})

\* C16: for a line in both the topic/keyword recall and the semantic
\* recall, under every configured pair of weights, the fusion score under
\* the higher semantic score is not below the one under the lower.
C16_FusionMonotoneInSemanticScore ==
    (fusion.pc = "scored" /\ fusion.in_kw) => fusion.score_hi >= fusion.score_lo

(***************************************************************************)
(* Claims about failures inside a retrieval (SpecRetrieve)                 *)
(***************************************************************************)
\* sem_top_k = min(_CHATLOG_MAX_LIST_ITEMS, max_per_dimension * 4)
SemTopK == Min(CHATLOG_MAX_LIST_ITEMS, max_per_dimension * 4)

\* C17: with the semantic artifacts missing, or with the embedding call
\* failing on every attempt, SemanticIndex.search returns an empty result
\* for every query of the request without raising, and the retrieve is not
\* left by an exception.
C17_SemanticSearchNeverRaises ==
    (/\ PositiveCeilings
     /\ req.use_semantic
     /\ env.sem \in {"missing", "embed_fails"}
     /\ rpc \in {"loop", "finish", "done", "raised"}) =>
        /\ \A k \in 1..Len(dims) :
               \A i \in 1..Len(dims[k].semantic_queries) :
                   SemanticSearch(env.sem, dims[k].semantic_queries[i], SemTopK)
                       = [raised |-> FALSE, hits |-> <<>>]
        /\ rpc # "raised"

\* C18: when a retrieve over several dimensions has ended, by returning or
\* by a failure inside one dimension, every dimension of the request has
\* been processed and is reported.
C18_FailureIsolatedPerDimension ==
    (/\ PositiveCeilings
     /\ Len(dims) >= 2
     /\ rpc = "raised") =>
        /\ Len(dimension_outputs) = Len(dims)
        /\ result.kind = "success"

\* No recall signal yields a line for any dimension of the call.
NoRecallAnywhere ==
    /\ Len(dims) >= 1
    /\ \A k \in 1..Len(dims) : CombinedLines(RecallLines(dims[k], req, env)) = {}

\* C19: when no recall signal yields any line for any dimension, retrieve
\* returns a success with empty evidence lists, and analyze on the handle
\* it returned gives a result that is not flagged as an error.
C19_NothingFoundIsNotAnError ==
    (PositiveCeilings /\ rpc = "done" /\ NoRecallAnywhere) =>
        /\ result.kind = "success"
        /\ \A k \in 1..Len(result.dimensions) : result.dimensions[k].evidence = <<>>
        /\ analysis.evidence_id = result.evidence_id => ~analysis.is_error

(***************************************************************************)
(* Claims about context lines (SpecRetrieve)                               *)
(***************************************************************************)
\* The lines of a list of (line, score) entries or of formatted messages.
LinesOf(msgs) == {msgs[i].line : i \in 1..Len(msgs)}

\* Every line the k-th dimension output, or the evidence gathered for the
\* handle under that dimension's name, holds in any of its lists.
LinesKept(k) ==
    LinesOf(dimension_outputs[k].evidence)
    \cup LinesOf(dimension_outputs[k].counter_evidence)
    \cup LinesOf(SelectSeq(evidence_store,
                           LAMBDA m : m.dimension = dimension_outputs[k].name))

\* The window [max(1, n - before), n + after] of line n within the log.
ContextWindow(n) ==
    {c \in Lines :
        /\ Max(1, n - Min(req.context_before, RETRIEVE_MAX_CONTEXT)) <= c
        /\ c <= n + Min(req.context_after, RETRIEVE_MAX_CONTEXT)}

\* C20: every dimension output keeps, besides its evidence items, the
\* context-only lines of each item's window, and a line loaded only as
\* context is never an evidence item.
C20_ContextLinesRetained ==
    (PositiveCeilings /\ rpc \in {"loop", "finish"}) =>
        \A k \in 1..Len(dimension_outputs) :
            /\ \A n \in LinesOf(dimension_outputs[k].evidence) :
                   ContextWindow(n) \subseteq LinesKept(k)
            /\ LinesOf(dimension_outputs[k].evidence)
                   \subseteq CombinedLines(RecallLines(dims[k], req, env))

(***************************************************************************)
(* Claims about compression (SpecRetrieve)                                 *)
(***************************************************************************)
\* C21: whatever the compression service answers, the lines stored under
\* the handle at the end of a retrieve are the lines of the evidence
\* gathered by the loop: compression adds, drops and re-selects nothing.
C21_CompressionKeepsEvidenceLines ==
    [][(PositiveCeilings /\ Finish) =>
           /\ EVIDENCE_STORE'[result'.evidence_id].messages = evidence_store'
           /\ LinesOf(evidence_store') = LinesOf(evidence_store)]_vars

(***************************************************************************)
(* Claims about the evidence matrix (SpecMatrix)                           *)
(***************************************************************************)
\* C22: the confidence tier and the gaps of a dimension are those the
\* counts give (evidence against min_evidence, counter-evidence, target
\* mentions), whatever the text-generation service does.
C22_MatrixFromCountsOnly ==
    matrixCase.pc = "analysed" =>
        /\ matrixCase.entry.confidence =
               RuleConfidence(matrixCase.n_evidence, matrixCase.min_evidence)
        /\ matrixCase.entry.gaps =
               RuleGaps(matrixCase.n_evidence, matrixCase.min_evidence,
                        matrixCase.has_target, matrixCase.mentions,
                        matrixCase.n_counter)

(***************************************************************************)
(* Claims about cancellation (SpecCancel)                                  *)
(***************************************************************************)
\* C23: once the cancellation signal has arrived during the loop over the
\* dimensions, no further dimension is processed and the call goes to the
\* terminal state "cancelled".
C23_CancelStopsDimensions ==
    [][(cancel_signal /\ rpc = "loop") =>
           /\ Len(dimension_outputs') = Len(dimension_outputs)
           /\ rpc' = "cancelled"]_vars

(***************************************************************************)
(* Claims about the length of the answer (SpecCap)                         *)
(***************************************************************************)
\* C24: on every return path of the composed query (results found, nothing
\* found, no question) the returned text has at most
\* CHATLOG_MAX_RETURN_CHARS characters plus the marker allowance.
C24_ReturnWithinLimit ==
    capCase.pc = "returned" =>
        capCase.text_len <= capCase.max_return_chars + MARKER_ALLOWANCE


\* C25: without a text-understanding service, expand_query for a
\* borrow-related question returns a topic list that contains every one of
\* 借贷, 金钱, 工资, 职业, 消费习惯, 评价 that is in available_topics.
C25_BorrowTopicsCovered ==
    (expandCase.pc = "returned" /\ is_borrow_question(expandCase.question)) =>
        \A i \in 1..Len(BorrowTopics) :
            InSeq(BorrowTopics[i], expandCase.available_topics)
                => InSeq(BorrowTopics[i], expandCase.topics)

\* A borrow question without 借 whose answer is cut at max_topics, with
\* the person in front and three of the six topics available.
C25_Witness ==
    /\ expandCase.pc = "returned"
    /\ expandCase.question.trigger = "credit"
    /\ Len(expandCase.topics) = MAX_TOPICS
    /\ expandCase.topics[1] = "target"
    /\ InSeq("money", expandCase.available_topics)
    /\ InSeq("review", expandCase.available_topics)
    /\ InSeq("salary", expandCase.available_topics)
    /\ ~InSeq("loan", expandCase.available_topics)

\* C26: once build_from_chatlog has completed, the matrix has one row per
\* entry of line_numbers, and search never indexes past the end of
\* line_numbers.
C26_OneRowPerLine ==
    /\ embed.pc \in {"built", "search_call", "searched", "search_failed"}
           => embed.matrix_rows = embed.line_numbers
    /\ embed.hits # "past_the_end"

\* The build of this run has been called and has ended.
BuildEnded == embed.pc \in {"built", "build_failed", "search_call", "searched", "search_failed"}
SearchEnded == embed.pc \in {"searched", "search_failed"}

\* C30: an embedding request is attempted at most 3 times, after the third
\* failed attempt the call ends with its failure, and the build and the
\* search that issue requests end.
C30_EmbeddingRequestsEnd ==
    /\ [](embed.attempt <= EMBED_ATTEMPTS)
    /\ [][(embed.pc \in {"build_call", "search_call"} /\ embed.attempt = EMBED_ATTEMPTS)
              => embed'.pc \in {"build_failed", "search_failed"}]_vars
    /\ <>BuildEnded
    /\ (embed.pc = "search_call") ~> SearchEnded

\* A search ended by the failure of its third attempt, on an index that
\* took more than one batch to build.
C30_Witness ==
    /\ embed.pc = "search_failed"
    /\ embed.hits = "none"
    /\ embed.attempt = EMBED_ATTEMPTS
    /\ embed.line_numbers > embed.batch_size

\* C27: for each dimension retrieve processes, the evidence items emitted
\* number at most min(max_per_dimension, remaining budget on entry) (read
\* for a value below zero as: none), and the remaining budget on entry to
\* the next dimension is the previous one less the items emitted.
C27_EmittedWithinDesiredAndDeducted ==
    [][(InLoop /\ remaining_budget > 0 /\ dimIdx' = dimIdx + 1) =>
           /\ Len(dimension_outputs'[Len(dimension_outputs')].evidence)
                  <= Max(0, Min(max_per_dimension, remaining_budget))
           /\ remaining_budget'
                  = remaining_budget - Len(dimension_outputs'[Len(dimension_outputs')].evidence)]_vars

\* The lines of the topic recall and of the semantic recall of a dimension
\* of the request, each computed on its own.
TopicRecallOf(dim) ==
    UNION {search_by_topic_exact(t) : t \in SeqRange(dim.topic_seeds) \cap available_topics}
SemanticRecallOf(dim) ==
    IF SemanticOn(req, env) /\ dim.semantic_queries # <<>>
    THEN DOMAIN SemanticRecall(env.sem, dim.semantic_queries, SemTopK).norm
    ELSE {}

\* C28: when retrieve processes a dimension, the keyword scan runs if and
\* only if the dimension has keyword seeds and its topic recall and its
\* semantic recall are both empty; when either is non-empty the candidate
\* set is made of those two recalls alone.
C28_KeywordScanOnlyAsFallback ==
    [][(InLoop /\ remaining_budget > 0 /\ dimIdx' = dimIdx + 1) =>
           /\ RecallLines(dims[dimIdx], req, env).keyword_scan
                  = (/\ dims[dimIdx].keyword_seeds # <<>>
                     /\ TopicRecallOf(dims[dimIdx]) = {}
                     /\ SemanticRecallOf(dims[dimIdx]) = {})
           /\ (TopicRecallOf(dims[dimIdx]) \cup SemanticRecallOf(dims[dimIdx]) # {}
                  => CombinedLines(RecallLines(dims[dimIdx], req, env))
                         = TopicRecallOf(dims[dimIdx]) \cup SemanticRecallOf(dims[dimIdx]))]_vars

\* A dimension with keyword seeds and no topic line was processed on its
\* semantic hits alone, after one that was processed on its keyword scan.
C28_Witness ==
    /\ rpc = "loop"
    /\ dimIdx = 3
    /\ dims[1].name = "cash" /\ dimension_outputs[1].evidence # <<>>
    /\ dims[2].name = "repay" /\ dimension_outputs[2].evidence # <<>>
    /\ TopicRecallOf(dims[2]) = {}
    /\ SemanticRecallOf(dims[2]) # {}
    /\ search_by_keywords(dims[2].keyword_seeds, req.target_person) # <<>>

\* The counter-evidence among stored messages, and the lines a dimension
\* step selects as evidence.
CounterAmong(msgs) == SelectSeq(msgs, LAMBDA m : m.is_counter)
SelectedOf(dim, budget) ==
    SeqRange(SelectedLines(RecallLines(dim, req, env), Desired(req, budget)))

\* About half of max_per_dimension: half, rounded up, and at least one.
AboutHalf(n) == Max(1, (n + 1) \div 2)

\* C29: for every dimension (of a call with positive ceilings), no
\* counter-evidence item has the line of a line selected as evidence for
\* that dimension, and the counter-evidence items kept for it, returned
\* and stored under the handle, number at most about half of
\* max_per_dimension.
C29_CounterEvidenceDisjointAndCapped ==
    [][/\ (PositiveCeilings /\ DimensionEvidence) =>
              /\ \A i \in 1..Len(dimension_outputs'[Len(dimension_outputs')].counter_evidence) :
                     dimension_outputs'[Len(dimension_outputs')].counter_evidence[i].line
                         \notin SelectedOf(dims[dimIdx], remaining_budget)
              /\ Len(dimension_outputs'[Len(dimension_outputs')].counter_evidence)
                     <= AboutHalf(max_per_dimension)
       /\ (PositiveCeilings /\ Finish /\ Len(dims) = 1) =>
              Len(CounterAmong(EVIDENCE_STORE'[result'.evidence_id].messages))
                  <= AboutHalf(max_per_dimension)]_vars
==============================================================================
